---------------------------- MODULE Spec2Model ----------------------------
(***************************************************************************)
(* A model of j178/chatgpt: the Conversation and ConversationManager       *)
(* entities, the bubbletea Update loop that drives them, and the Send task *)
(* that feeds the loop with answer fragments.                              *)
(*                                                                         *)
(* Strings are sequences of one-character strings, so that concatenation   *)
(* (Go's +=) and strings.TrimSpace are computed, not assumed.  Go slices   *)
(* are 0-based; sequences here are 1-based, and Idx / historyIdx keep the  *)
(* Go values (element Idx of a slice is element Idx + 1 of the sequence).  *)
(* A nil *QnA is the empty sequence and a non-nil one a one-element        *)
(* sequence.                                                               *)
(*                                                                         *)
(* The specifications share the variables:                                 *)
(*   SpecConv    calls of the Conversation API in any order                *)
(*   Spec        the Update loop of ui/ui.go with the callback Send        *)
(*   SpecLegacy  the earlier loop with send / recv / done, the retry       *)
(*               wrapper and the explicit stream handle                    *)
(*   SpecFn      GetContextMessages, ForgetContext and UpdatePending on    *)
(*               conversations drawn from a bounded set                    *)
(*   SpecMgr     calls of the ConversationManager API in any order         *)
(*   SpecDump    a session of the manager, Dump() and Load()               *)
(*   SpecQuit    the Update loop with the quit key and detach mode         *)
(*   SpecFind    FindByPrompt on managers drawn from a bounded set         *)
(*   SpecSave    the Update loop with the periodic save and a restart      *)
(*   SpecOrder   the Update loop with the fragments of a stream in order   *)
(*   SpecTok     the cached token count of one conversation                *)
(*   SpecCrash   Dump() in two steps, with the process killed and started  *)
(*               again                                                     *)
(*   SpecLive    the Update loop of one conversation under fair scheduling *)
(*   SpecRead    the Update loop with the reads of the Send command as     *)
(*               steps of their own                                        *)
(*   SpecHist    the Update loop with the keys that recall questions       *)
(***************************************************************************)
EXTENDS Integers, Sequences, FiniteSets, TLC

VARIABLES
    conf,           \* GlobalConfig: the default conversation configuration
    Conversations,  \* ConversationManager.Conversations
    Idx,            \* ConversationManager.Idx
    sent,           \* history: per conversation, the question last added and the fragments passed since
    lastCall,       \* history: the last API call and what it returned
    answering,      \* Model.answering (ChatGPT.answering in the earlier loop)
    err,            \* Model.err
    textarea,       \* Model.textarea.Value()
    historyIdx,     \* Model.historyIdx
    task,           \* the Send command running beside the loop
    inbox,          \* messages handed to the loop and not yet processed
    lastMsg,        \* history: the message the loop processed last
    stream,         \* ChatGPT.stream: the handle held, 0 for nil
    handles,        \* per stream handle opened so far, how often it was closed
    attempts,       \* history: the outcome of each attempt of the last send
    file,           \* the history file: the document it holds
    quit,           \* the loop has returned tea.Quit
    DetachMode,     \* ui.DetachMode
    ticks           \* the save ticks scheduled by savePeriodically and not yet delivered

mgrVars == <<Conversations, Idx>>
apiVars == <<sent, lastCall>>
uiVars == <<answering, err, textarea, historyIdx, task, inbox, lastMsg>>
legacyVars == <<stream, handles, attempts>>
storeVars == <<file, quit, DetachMode, ticks>>
vars == <<conf, Conversations, Idx, sent, lastCall, answering, err, textarea, historyIdx,
          task, inbox, lastMsg, stream, handles, attempts, file, quit, DetachMode, ticks>>

----------------------------------------------------------------------------
(* Bounds of the model *)

\* completed or pending pairs held by all conversations together
MaxPairs == 2
\* conversations in the manager
MaxConvs == 2
\* fragments passed with done=false for one question; fragments one provider
\* call delivers before it ends
MaxChunks == 1

----------------------------------------------------------------------------
(* Strings *)

EmptyStr == <<>>

\* unicode.IsSpace, on the model's alphabet
IsSpace(ch) == ch = " "

RECURSIVE TrimLeft(_)
TrimLeft(s) ==
    IF s # <<>> /\ IsSpace(Head(s)) THEN TrimLeft(Tail(s)) ELSE s

RECURSIVE TrimRight(_)
TrimRight(s) ==
    IF s # <<>> /\ IsSpace(s[Len(s)]) THEN TrimRight(SubSeq(s, 1, Len(s) - 1)) ELSE s

\* strings.TrimSpace
TrimSpace(s) == TrimRight(TrimLeft(s))

Last(s) == s[Len(s)]

----------------------------------------------------------------------------
(* Inputs *)

\* what the user may have typed when a key arrives
Inputs == { <<>>, <<" ">>, <<" ", "x", " ">> }

\* questions passed to AddQuestion by a direct caller
Questions == { <<"x">>, <<"y">> }

\* answer fragments
Fragments == { <<>>, <<"a">>, <<"b">> }

\* ConversationConfig: the fields the loop and the conversation read
Providers == { "openai" }

Configs ==
    [ Provider : Providers \cup { "gone" }, Prompt : { "default" },
      ContextLength : {0, 1, 2}, Stream : BOOLEAN ]

\* GlobalConfig.Prompts of the configuration written when there is none; the
\* texts are shortened, the keys are those of the source
DefaultPrompts ==
    [ key \in { "default", "translator", "shell" } |->
          CASE key = "default" -> "You are ChatGPT"
            [] key = "translator" -> "I want you to act as an English translator"
            [] key = "shell" -> "Return a one-line bash command" ]

\* GlobalConfig.DefaultConversation, as the configuration file gives it
DefaultConversation == conf.DefaultConversation

\* the configuration written when there is no configuration file
DefaultConfig ==
    [ DefaultConversation |->
          [ Provider |-> "openai", Prompt |-> "default", ContextLength |-> 6, Stream |-> TRUE ],
      Prompts |-> DefaultPrompts ]

----------------------------------------------------------------------------
(* Conversation *)

QnA(q, a) == [ Question |-> q, Answer |-> a ]

\* a mutant of NewConversation: the default configuration is taken, not the
\* one given
NewConversationDefault(cfg) ==
    [ manager |-> "m", Config |-> DefaultConversation, Forgotten |-> <<>>,
      Context |-> <<>>, Pending |-> <<>>, contextTokens |-> 0 ]

\* manager is the back-reference: "m" for the manager that holds the
\* conversation, "nil" for none
NewConversation(cfg) ==
    [ manager |-> "m", Config |-> cfg, Forgotten |-> <<>>, Context |-> <<>>,
      Pending |-> <<>>, contextTokens |-> 0 ]

AddQuestion(c, q) ==
    [ c EXCEPT !.Pending = << QnA(q, EmptyStr) >>, !.contextTokens = 0 ]

\* a mutant of Evict: the entry taken from the context is not kept
EvictDrops(c) ==
    IF Len(c.Context) > c.Config.ContextLength
    THEN [ c EXCEPT !.Context = Tail(c.Context) ]
    ELSE c

\* a mutant of Evict: the comparison is off by one
EvictLate(c) ==
    IF Len(c.Context) > c.Config.ContextLength + 1
    THEN [ c EXCEPT !.Forgotten = Append(c.Forgotten, Head(c.Context)),
                    !.Context = Tail(c.Context) ]
    ELSE c

\* the eviction of UpdatePending: one entry, when the bound is exceeded
Evict(c) ==
    IF Len(c.Context) > c.Config.ContextLength
    THEN [ c EXCEPT !.Forgotten = Append(c.Forgotten, Head(c.Context)),
                    !.Context = Tail(c.Context) ]
    ELSE c

\* a mutant of UpdatePending: the fragment carried by the done=true call is lost
UpdatePendingDropsFinal(c, ans, done) ==
    IF c.Pending = <<>> THEN c
    ELSE IF done
         THEN [ Evict([ c EXCEPT !.Context = Append(c.Context, c.Pending[1]),
                                 !.contextTokens = 0 ])
                EXCEPT !.Pending = <<>> ]
         ELSE [ c EXCEPT !.Pending = << [ c.Pending[1] EXCEPT !.Answer = @ \o ans ] >> ]

\* a mutant of UpdatePending: the fragment is put in front of the answer
UpdatePendingPrepends(c, ans, done) ==
    IF c.Pending = <<>> THEN c
    ELSE LET p == [ c.Pending[1] EXCEPT !.Answer = ans \o @ ]
         IN  IF done
             THEN [ Evict([ c EXCEPT !.Context = Append(c.Context, p),
                                     !.contextTokens = 0 ])
                    EXCEPT !.Pending = <<>> ]
             ELSE [ c EXCEPT !.Pending = << p >> ]

\* a mutant of UpdatePending: the completed answer leaves the cached count alone
UpdatePendingKeepsTokens(c, ans, done) ==
    IF c.Pending = <<>> THEN c
    ELSE LET p == [ c.Pending[1] EXCEPT !.Answer = @ \o ans ]
         IN  IF done
             THEN [ Evict([ c EXCEPT !.Context = Append(c.Context, p) ])
                    EXCEPT !.Pending = <<>> ]
             ELSE [ c EXCEPT !.Pending = << p >> ]

\* a mutant of UpdatePending: a call without a pending pair makes one of the
\* fragment
UpdatePendingCreates(c, ans, done) ==
    LET p == IF c.Pending = <<>> THEN QnA(EmptyStr, ans)
             ELSE [ c.Pending[1] EXCEPT !.Answer = @ \o ans ]
    IN  IF done
        THEN [ Evict([ c EXCEPT !.Context = Append(c.Context, p),
                                !.contextTokens = 0 ])
               EXCEPT !.Pending = <<>> ]
        ELSE [ c EXCEPT !.Pending = << p >> ]

UpdatePending(c, ans, done) ==
    IF c.Pending = <<>> THEN c
    ELSE LET p == [ c.Pending[1] EXCEPT !.Answer = @ \o ans ]
         IN  IF done
             THEN [ Evict([ c EXCEPT !.Context = Append(c.Context, p),
                                     !.contextTokens = 0 ])
                    EXCEPT !.Pending = <<>> ]
             ELSE [ c EXCEPT !.Pending = << p >> ]

\* a mutant of ForgetContext: the context is put before the forgotten entries
ForgetContextInFront(c) ==
    [ c EXCEPT !.Forgotten = c.Context \o c.Forgotten, !.Context = <<>>, !.contextTokens = 0 ]

ForgetContext(c) ==
    [ c EXCEPT !.Forgotten = c.Forgotten \o c.Context, !.Context = <<>>,
               !.contextTokens = 0 ]

PendingAnswer(c) == IF c.Pending = <<>> THEN EmptyStr ELSE c.Pending[1].Answer

LastAnswer(c) == IF Len(c.Context) = 0 THEN EmptyStr ELSE Last(c.Context).Answer

\* GlobalConfig.LookupPrompt: the text of a key of the prompt table, the key
\* itself when the table has no text for it
LookupPrompt(cfg, key) ==
    IF key \in DOMAIN cfg.Prompts /\ cfg.Prompts[key] # ""
    THEN cfg.Prompts[key]
    ELSE key

\* a mutant of PromptMatches: the conversation's prompt is compared as it is
\* written, without looking it up
PromptMatchesRaw(cfg, c, prompt) == c.Config.Prompt = prompt

\* the test of the scan of FindByPrompt
PromptMatches(cfg, c, prompt) == LookupPrompt(cfg, c.Config.Prompt) = prompt

\* the scan of FindByPrompt from element i on: the pointer found is given by
\* the position of its element, nil by found = FALSE
RECURSIVE FindFrom(_, _, _, _)
FindFrom(cfg, cs, i, prompt) ==
    IF i > Len(cs) THEN [ found |-> FALSE, pos |-> -1 ]
    ELSE IF PromptMatches(cfg, cs[i], prompt) THEN [ found |-> TRUE, pos |-> i - 1 ]
    ELSE FindFrom(cfg, cs, i + 1, prompt)

FindByPrompt(cfg, cs, key) == FindFrom(cfg, cs, 1, LookupPrompt(cfg, key))

message(role, msg) == [ Role |-> role, Parts |-> << msg >> ]

\* the loop of GetContextMessages over the context
RECURSIVE ContextMessages(_)
ContextMessages(ctx) ==
    IF ctx = <<>>
    THEN <<>>
    ELSE << message("human", Head(ctx).Question), message("ai", Head(ctx).Answer) >>
             \o ContextMessages(Tail(ctx))

\* a mutant of GetContextMessages: the forgotten entries are sent too
GetContextMessagesAll(c) ==
    << message("system", LookupPrompt(conf, c.Config.Prompt)) >>
        \o ContextMessages(c.Forgotten \o c.Context)
        \o (IF c.Pending # <<>> THEN << message("human", c.Pending[1].Question) >> ELSE <<>>)

\* a mutant of GetContextMessages: the pending question is left out
GetContextMessagesNoPending(c) ==
    << message("system", LookupPrompt(conf, c.Config.Prompt)) >>
        \o ContextMessages(c.Context)

GetContextMessages(c) ==
    << message("system", LookupPrompt(conf, c.Config.Prompt)) >>
        \o ContextMessages(c.Context)
        \o (IF c.Pending # <<>> THEN << message("human", c.Pending[1].Question) >> ELSE <<>>)

\* a mutant of ConvLen: the pending pair is not counted
ConvLenNoPending(c) == Len(c.Forgotten) + Len(c.Context)

ConvLen(c) ==
    Len(c.Forgotten) + Len(c.Context) + (IF c.Pending # <<>> THEN 1 ELSE 0)

\* GetQuestion returns a string or panics (index out of range on c.Context)
Returned(s) == [ panic |-> FALSE, value |-> s ]
Panicked == [ panic |-> TRUE, value |-> EmptyStr ]

GetQuestion(c, idx) ==
    IF idx < 0 \/ idx >= ConvLen(c) THEN Returned(EmptyStr)
    ELSE IF idx < Len(c.Forgotten) THEN Returned(c.Forgotten[idx + 1].Question)
    ELSE IF idx - Len(c.Forgotten) < Len(c.Context)
         THEN Returned(c.Context[idx - Len(c.Forgotten) + 1].Question)
         ELSE Panicked

----------------------------------------------------------------------------
(* ConversationManager, as a record [Conversations, Idx] *)

Manager(cs, i) == [ Conversations |-> cs, Idx |-> i ]

\* NewConversationManager with no history file
EmptyManager == Manager(<<>>, -1)

\* a mutant of ManagerNew: the new conversation is not made current
ManagerNewKeepsIdx(m, cfg) ==
    Manager(Append(m.Conversations, NewConversation(cfg)), m.Idx)

ManagerNew(m, cfg) ==
    Manager(Append(m.Conversations, NewConversation(cfg)), Len(m.Conversations))

\* a mutant of ManagerCurr: a conversation is created on every call
ManagerCurrAlwaysNew(m) == ManagerNew(m, DefaultConversation)

ManagerCurr(m) ==
    IF Len(m.Conversations) = 0 THEN ManagerNew(m, DefaultConversation) ELSE m

\* m.Conversations[m.Idx], which panics when Idx is out of range
ElementAt(m) ==
    IF m.Idx >= 0 /\ m.Idx < Len(m.Conversations)
    THEN [ panic |-> FALSE, value |-> m.Conversations[m.Idx + 1] ]
    ELSE [ panic |-> TRUE, value |-> "none" ]

\* what Curr() returns
CurrReturns(m) == ElementAt(ManagerCurr(m))

\* SetCurr(conv), where ptr is the position of conv in the list, or -1 for a
\* conv that is not an element of the list: the elements are distinct pointers,
\* so the loop stops at that position or finds none
ManagerSetCurr(m, ptr) ==
    IF ptr >= 0 /\ ptr < Len(m.Conversations)
    THEN Manager(m.Conversations, ptr)
    ELSE m

\* the conversation Curr() returns, in the manager Curr() leaves
CurrConv(m) == ManagerCurr(m).Conversations[ManagerCurr(m).Idx + 1]

\* m with the conversation Curr() returns replaced by c
WithCurr(m, c) ==
    LET n == ManagerCurr(m)
    IN  Manager([ n.Conversations EXCEPT ![n.Idx + 1] = c ], n.Idx)

RemoveAt(s, i) == SubSeq(s, 1, i - 1) \o SubSeq(s, i + 1, Len(s))

\* a mutant of ManagerRemoveCurr: Idx is not moved after the last element is removed
ManagerRemoveCurrKeepsIdx(m) ==
    IF Len(m.Conversations) = 0 THEN m
    ELSE Manager(RemoveAt(m.Conversations, m.Idx + 1), m.Idx)

ManagerRemoveCurr(m) ==
    IF Len(m.Conversations) = 0 THEN m
    ELSE LET cs == RemoveAt(m.Conversations, m.Idx + 1)
         IN  Manager(cs, IF m.Idx >= Len(cs) THEN Len(cs) - 1 ELSE m.Idx)

\* a mutant of ManagerPrev: the index wraps around to the last conversation
ManagerPrevWraps(m) ==
    IF Len(m.Conversations) = 0 THEN m
    ELSE Manager(m.Conversations,
                 IF m.Idx - 1 < 0 THEN Len(m.Conversations) - 1 ELSE m.Idx - 1)

ManagerPrev(m) ==
    IF Len(m.Conversations) = 0 THEN m
    ELSE Manager(m.Conversations, IF m.Idx - 1 < 0 THEN 0 ELSE m.Idx - 1)

ManagerNext(m) ==
    IF Len(m.Conversations) = 0 THEN m
    ELSE Manager(m.Conversations,
                 IF m.Idx + 1 >= Len(m.Conversations)
                 THEN Len(m.Conversations) - 1 ELSE m.Idx + 1)

\* the manager the variables hold
M == Manager(Conversations, Idx)

(* Dump and Load. The history file holds the JSON document the encoder     *)
(* writes: an object is a function from its keys, an array a sequence, a   *)
(* string the characters between its quotes.                               *)

Escaped == { "\"", "\\" }

RECURSIVE EncodeString(_)
EncodeString(s) ==
    IF s = <<>> THEN <<>>
    ELSE (IF Head(s) \in Escaped THEN << "\\", Head(s) >> ELSE << Head(s) >>)
         \o EncodeString(Tail(s))

RECURSIVE DecodeString(_)
DecodeString(s) ==
    IF s = <<>> THEN <<>>
    ELSE IF Head(s) = "\\" /\ Len(s) >= 2
         THEN << s[2] >> \o DecodeString(SubSeq(s, 3, Len(s)))
         ELSE << Head(s) >> \o DecodeString(Tail(s))

EncodeQnA(p) ==
    [ question |-> EncodeString(p.Question), answer |-> EncodeString(p.Answer) ]

\* a mutant of DecodeQnA: escape sequences are left as they are
DecodeQnARaw(o) == QnA(o.question, o.answer)

DecodeQnA(o) ==
    QnA(DecodeString(o.question), DecodeString(o.answer))

\* the provider and prompt names are whole words with no character that is
\* escaped, which the encoder writes as they are
EncodeConfig(cfg) ==
    [ provider |-> cfg.Provider, prompt |-> cfg.Prompt,
      context_length |-> cfg.ContextLength, stream |-> cfg.Stream ]

DecodeConfig(o) ==
    [ Provider |-> o.provider, Prompt |-> o.prompt,
      ContextLength |-> o.context_length, Stream |-> o.stream ]

\* a key tagged omitempty is left out when its value is empty
OmitEmpty(key, value) == IF value = <<>> THEN <<>> ELSE key :> value

\* the unexported fields manager and contextTokens are not written
EncodeConversation(c) ==
    ("config" :> EncodeConfig(c.Config))
    @@ OmitEmpty("forgotten", [ i \in 1..Len(c.Forgotten) |-> EncodeQnA(c.Forgotten[i]) ])
    @@ OmitEmpty("context", [ i \in 1..Len(c.Context) |-> EncodeQnA(c.Context[i]) ])
    @@ OmitEmpty("pending", [ i \in 1..Len(c.Pending) |-> EncodeQnA(c.Pending[i]) ])

\* the value of a key, or the zero value the decoder leaves when it is absent
Field(o, key) == IF key \in DOMAIN o THEN o[key] ELSE <<>>

DecodeConversation(o) ==
    [ manager |-> "nil",
      Config |-> DecodeConfig(o.config),
      Forgotten |-> [ i \in 1..Len(Field(o, "forgotten")) |-> DecodeQnA(Field(o, "forgotten")[i]) ],
      Context |-> [ i \in 1..Len(Field(o, "context")) |-> DecodeQnA(Field(o, "context")[i]) ],
      Pending |-> [ i \in 1..Len(Field(o, "pending")) |-> DecodeQnA(Field(o, "pending")[i]) ],
      contextTokens |-> 0 ]

Encode(m) ==
    [ conversations |-> [ i \in 1..Len(m.Conversations) |-> EncodeConversation(m.Conversations[i]) ],
      last_idx |-> m.Idx ]

Decode(doc) ==
    Manager([ i \in 1..Len(doc.conversations) |-> DecodeConversation(doc.conversations[i]) ],
            doc.last_idx)

\* the content of a history file that does not exist
NoFile == <<>>

\* Dump() of m: the file is created or truncated and the document written
Dump(m) == << Encode(m) >>

\* Load() of a manager that NewConversationManager has just constructed, from
\* a file holding f: a missing file leaves it empty, and the conversations
\* that were decoded get the manager as their back-reference
Load(f) ==
    IF f = NoFile THEN EmptyManager
    ELSE LET m == Decode(f[1])
         IN  Manager([ i \in 1..Len(m.Conversations) |->
                         [ m.Conversations[i] EXCEPT !.manager = "m" ] ],
                     m.Idx)

SetManager(m) == Conversations' = m.Conversations /\ Idx' = m.Idx

RECURSIVE SumLen(_)
SumLen(cs) == IF cs = <<>> THEN 0 ELSE ConvLen(Head(cs)) + SumLen(Tail(cs))

\* pairs held by all conversations of m
Pairs(m) == SumLen(m.Conversations)


----------------------------------------------------------------------------
(* History of the API calls *)

\* nothing asked yet
NoSent == [ q |-> EmptyStr, passed |-> EmptyStr, n |-> 0, open |-> FALSE ]

\* closed: the call was a done=true UpdatePending made while a question added by
\* AddQuestion was still awaiting its done=true call
NoCall == [ op |-> "none", conv |-> 0, done |-> FALSE, closed |-> FALSE ]

Call(op, i) == [ NoCall EXCEPT !.op = op, !.conv = i ]

\* the values of the variables a specification does not use
UiIdle ==
    /\ answering = FALSE
    /\ err = "nil"
    /\ textarea = EmptyStr
    /\ historyIdx = 0
    /\ task = [ pc |-> "none", chunks |-> 0 ]
    /\ inbox = <<>>
    /\ lastMsg = "none"

LegacyIdle == stream = 0 /\ handles = <<>> /\ attempts = <<>>

\* no history file yet

StoreIdle == file = NoFile /\ quit = FALSE /\ DetachMode = FALSE /\ ticks = 0

----------------------------------------------------------------------------
(* SpecConv: one conversation, created empty by the manager, and calls of   *)
(* its methods in any order with any arguments                              *)

\* the configurations a conversation is created with here
ConvConfigs == { c \in Configs : c.Provider = "openai" /\ c.Stream }

InitConv ==
    /\ conf = DefaultConfig
    /\ Conversations = <<>>
    /\ Idx = -1
    /\ sent = <<>>
    /\ lastCall = NoCall
    /\ UiIdle
    /\ LegacyIdle
    /\ StoreIdle

CallNew ==
    /\ Len(Conversations) = 0
    /\ \E cfg \in ConvConfigs : SetManager(ManagerNew(M, cfg))
    /\ sent' = Append(sent, NoSent)
    /\ lastCall' = Call("New", Len(Conversations) + 1)
    /\ UNCHANGED <<conf, storeVars, uiVars, legacyVars>>

CallAddQuestion ==
    \E i \in 1..Len(Conversations), q \in Questions :
        /\ Pairs(M) < MaxPairs \/ Conversations[i].Pending # <<>>
        /\ Conversations' = [ Conversations EXCEPT ![i] = AddQuestion(@, q) ]
        /\ sent' = [ sent EXCEPT ![i] = [ q |-> q, passed |-> EmptyStr, n |-> 0, open |-> TRUE ] ]
        /\ lastCall' = Call("AddQuestion", i)
        /\ UNCHANGED <<conf, storeVars, Idx, uiVars, legacyVars>>

CallUpdatePending ==
    \E i \in 1..Len(Conversations), ans \in Fragments, done \in BOOLEAN :
        /\ done \/ sent[i].n < MaxChunks
        /\ Conversations' = [ Conversations EXCEPT ![i] = UpdatePending(@, ans, done) ]
        /\ sent' = [ sent EXCEPT ![i] =
                       IF @.open
                       THEN [ @ EXCEPT !.passed = @ \o ans, !.n = @ + 1, !.open = ~done ]
                       ELSE @ ]
        /\ lastCall' = [ Call("UpdatePending", i) EXCEPT
                           !.done = done, !.closed = done /\ sent[i].open ]
        /\ UNCHANGED <<conf, storeVars, Idx, uiVars, legacyVars>>

CallForgetContext ==
    \E i \in 1..Len(Conversations) :
        /\ Conversations' = [ Conversations EXCEPT ![i] = ForgetContext(@) ]
        /\ lastCall' = Call("ForgetContext", i)
        /\ UNCHANGED <<conf, storeVars, Idx, sent, uiVars, legacyVars>>

NextConv ==
    \/ CallNew
    \/ CallAddQuestion
    \/ CallUpdatePending
    \/ CallForgetContext

SpecConv == InitConv /\ [][NextConv]_vars

----------------------------------------------------------------------------
(* Claims C1 - C3, under SpecConv *)

JustClosed(i) == lastCall.op = "UpdatePending" /\ lastCall.done /\ lastCall.conv = i

\* C1: for a conversation created empty by the manager with context_length >= 0,
\* after every UpdatePending(_, done=true), in any sequence of AddQuestion,
\* UpdatePending and ForgetContext calls, len(context) <= context_length.
C1_ContextBound ==
    \A i \in 1..Len(Conversations) :
        JustClosed(i) =>
            Len(Conversations[i].Context) <= Conversations[i].Config.ContextLength

\* a completion that evicted: context is full and the oldest pair is in forgotten
C1_Witness ==
    \E i \in 1..Len(Conversations) :
        /\ JustClosed(i) /\ lastCall.closed
        /\ Conversations[i].Config.ContextLength = 1
        /\ Len(Conversations[i].Context) = 1
        /\ Len(Conversations[i].Forgotten) = 1

\* the pair the history says was asked and answered on conversation i
SentPair(i) == QnA(sent[i].q, sent[i].passed)

\* while a question awaits its done=true call, pending holds it with the
\* concatenation, in call order, of the fragments passed so far
PendingIsConcatenation ==
    \A i \in 1..Len(Conversations) :
        sent[i].open => Conversations[i].Pending = << SentPair(i) >>

Recall(c) == c.Forgotten \o c.Context

\* C3: for every conversation state, pending present or not, and every integer i,
\* GetQuestion(i) returns the question of (forgotten ++ context)[i] when
\* 0 <= i < len(forgotten) + len(context) and the empty string, without failing,
\* for every other i.
C3_RecallIndex ==
    \A k \in 1..Len(Conversations) :
        LET c == Conversations[k]
        IN  \A i \in -2..(Len(Recall(c)) + 2) :
                GetQuestion(c, i) =
                    IF 0 <= i /\ i < Len(Recall(c))
                    THEN Returned(Recall(c)[i + 1].Question)
                    ELSE Returned(EmptyStr)


\* the step is a done=true UpdatePending on conversation i, which had a pending
\* pair
ClosingStep(i) ==
    /\ lastCall'.op = "UpdatePending" /\ lastCall'.done /\ lastCall'.conv = i
    /\ Conversations[i].Pending # <<>>

\* C24: forgotten ++ context of a conversation changes only by one completed
\* pair being appended at its end, by UpdatePending with done=true; eviction and
\* ForgetContext only move entries from the front of context to the end of
\* forgotten, so no entry that has left pending is dropped, duplicated,
\* reordered or modified
C24_AppendOnly ==
    [][ \A i \in 1..Len(Conversations) :
          LET c == Conversations[i]
              d == Conversations'[i]
          IN  /\ \/ Recall(d) = Recall(c)
                 \/ /\ ClosingStep(i)
                    /\ \E ans \in Fragments :
                          Recall(d) = Append(Recall(c), QnA(c.Pending[1].Question,
                                                            c.Pending[1].Answer \o ans))
              /\ Len(d.Forgotten) >= Len(c.Forgotten)
      ]_vars

\* with context_length = 1 the first pair was evicted by the completion of the
\* second, and ForgetContext then moved the second behind it
C24_Witness ==
    /\ lastCall.op = "ForgetContext"
    /\ Conversations[1].Config.ContextLength = 1
    /\ Len(Conversations[1].Forgotten) = 2
    /\ Conversations[1].Forgotten[1] # Conversations[1].Forgotten[2]
    /\ Conversations[1].Context = <<>>

----------------------------------------------------------------------------
(* Spec: the Update loop of ui/ui.go.  One action per message the loop      *)
(* processes, and the steps of the Send command that runs beside it.        *)

\* the errors a provider call may return: io.EOF and any other
ProviderErrors == { "EOF", "net" }

UnknownProvider == "unknown provider"
UnexpectedEOF == "unexpected EOF, please try again"

\* the content of a whole (non-streaming) answer
Contents == { <<>>, <<"a">> }

answerMsg(content, done) == [ type |-> "answerMsg", content |-> content, done |-> done ]
errMsg(e) == [ type |-> "errMsg", err |-> e ]

NoTask == [ pc |-> "none", chunks |-> 0 ]

\* the configurations the file may give: every one with a configured provider,
\* and one whose provider is not configured
UiConfigs ==
    { c \in Configs :
        c.ContextLength <= 1 /\ (c.Provider \in Providers \/ (c.ContextLength = 1 /\ c.Stream)) }

\* InitialModel, on a manager without a history file: Curr() creates the first
\* conversation
Init ==
    /\ conf \in [ DefaultConversation : UiConfigs, Prompts : { DefaultPrompts } ]
    /\ Conversations = ManagerCurr(EmptyManager).Conversations
    /\ Idx = ManagerCurr(EmptyManager).Idx
    /\ sent = <<>>
    /\ lastCall = NoCall
    /\ answering = FALSE
    /\ err = "nil"
    /\ textarea = EmptyStr
    /\ historyIdx = ConvLen(CurrConv(EmptyManager))
    /\ task = NoTask
    /\ inbox = <<>>
    /\ lastMsg = "none"
    /\ LegacyIdle
    /\ StoreIdle

\* textarea.Update on a key that edits the text.  From an accepted submit until
\* the answer ends the text area is blurred; whether it then takes the key is
\* the text area's own affair, and both outcomes are allowed
KeyRunes ==
    /\ \E text \in Inputs : textarea' = text
    /\ UNCHANGED <<conf, storeVars, mgrVars, apiVars, answering, err, historyIdx, task, inbox, lastMsg, legacyVars>>

\* a mutant of SubmitAccepts: the answering flag is not consulted
SubmitAcceptsWhileAnswering(input) == TrimSpace(input) # EmptyStr

\* a mutant of SubmitAccepts: the input is not trimmed
SubmitAcceptsUntrimmed(input) == ~answering /\ input # EmptyStr

\* the two early returns of the submit handler
SubmitAccepts(input) == ~answering /\ TrimSpace(input) # EmptyStr

KeySubmit ==
    /\ SubmitAccepts(textarea) => Pairs(M) < MaxPairs
    /\ IF SubmitAccepts(textarea)
       THEN LET m1 == WithCurr(M, AddQuestion(CurrConv(M), TrimSpace(textarea)))
            IN  /\ SetManager(m1)
                /\ task' = [ pc |-> "start", chunks |-> 0 ]
                /\ answering' = TRUE
                /\ textarea' = EmptyStr
                /\ historyIdx' = ConvLen(CurrConv(m1))
       ELSE UNCHANGED <<mgrVars, task, answering, textarea, historyIdx>>
    /\ lastMsg' = "Submit"
    /\ UNCHANGED <<conf, storeVars, apiVars, err, inbox, legacyVars>>

\* a mutant of Rejects: the guard of the key handlers is missing
NeverRejects == FALSE

\* a mutant of Rejects: the guard is the wrong way round
RejectsWhenIdle == ~answering

\* a mutant of Rejects: the guard holds only once the provider has been called
RejectsOnceCalled == answering /\ task.pc = "call"

\* the guard shared by the conversation key handlers
Rejects == answering

KeyNewConversation ==
    /\ ~Rejects => Len(Conversations) < MaxConvs
    /\ IF Rejects
       THEN UNCHANGED <<mgrVars, err, historyIdx>>
       ELSE /\ err' = "nil"
            /\ SetManager(ManagerNew(M, DefaultConversation))
            /\ historyIdx' = 0
    /\ lastMsg' = "NewConversation"
    /\ UNCHANGED <<conf, storeVars, apiVars, answering, textarea, task, inbox, legacyVars>>

KeyForgetContext ==
    /\ IF Rejects
       THEN UNCHANGED <<mgrVars, err>>
       ELSE /\ err' = "nil"
            /\ SetManager(WithCurr(M, ForgetContext(CurrConv(M))))
    /\ lastMsg' = "ForgetContext"
    /\ UNCHANGED <<conf, storeVars, apiVars, answering, textarea, historyIdx, task, inbox, legacyVars>>

KeyRemoveConversation ==
    /\ IF Rejects
       THEN UNCHANGED <<mgrVars, err, historyIdx>>
       ELSE LET m1 == ManagerCurr(ManagerRemoveCurr(M))
            IN  /\ err' = "nil"
                /\ SetManager(m1)
                /\ historyIdx' = ConvLen(CurrConv(m1))
    /\ lastMsg' = "RemoveConversation"
    /\ UNCHANGED <<conf, storeVars, apiVars, answering, textarea, task, inbox, legacyVars>>

KeyPrevConversation ==
    /\ IF Rejects
       THEN UNCHANGED <<mgrVars, err, historyIdx>>
       ELSE LET m1 == ManagerCurr(ManagerPrev(M))
            IN  /\ err' = "nil"
                /\ SetManager(m1)
                /\ historyIdx' = ConvLen(CurrConv(m1))
    /\ lastMsg' = "PrevConversation"
    /\ UNCHANGED <<conf, storeVars, apiVars, answering, textarea, task, inbox, legacyVars>>

KeyNextConversation ==
    /\ IF Rejects
       THEN UNCHANGED <<mgrVars, err, historyIdx>>
       ELSE LET m1 == ManagerCurr(ManagerNext(M))
            IN  /\ err' = "nil"
                /\ SetManager(m1)
                /\ historyIdx' = ConvLen(CurrConv(m1))
    /\ lastMsg' = "NextConversation"
    /\ UNCHANGED <<conf, storeVars, apiVars, answering, textarea, task, inbox, legacyVars>>

\* a mutant of AnswerDone: the flag is cleared by every answer message
AnswerDoneAlways(done) == TRUE

\* a mutant of AnswerDone: the flag is never cleared by an answer message
AnswerDoneNever(done) == FALSE

\* whether an answer message ends the answer
AnswerDone(done) == done

RecvAnswerMsg ==
    /\ inbox # <<>> /\ Head(inbox).type = "answerMsg"
    /\ LET msg == Head(inbox)
       IN  /\ SetManager(WithCurr(M, UpdatePending(CurrConv(M), msg.content, msg.done)))
           /\ err' = "nil"
           /\ answering' = IF AnswerDone(msg.done) THEN FALSE ELSE answering
           /\ lastMsg' = IF msg.done THEN "answerMsg done" ELSE "answerMsg"
    /\ inbox' = Tail(inbox)
    /\ UNCHANGED <<conf, storeVars, apiVars, textarea, historyIdx, task, legacyVars>>

\* a mutant of Surfaced: the end of stream is an error like any other
SurfacedAlways(e, c, shown) == e

\* the error shown after an error message: msg unless it is io.EOF, which is
\* an error only when no answer text has arrived
Surfaced(e, c, shown) ==
    IF e = "EOF"
    THEN IF PendingAnswer(c) = EmptyStr THEN UnexpectedEOF ELSE shown
    ELSE e

\* a mutant of ForceClose: the pending pair is left open
ForceCloseNot(c) == c

\* a mutant of ForceClose: the call is made with done = false
ForceCloseNotDone(c) == UpdatePending(c, EmptyStr, FALSE)

\* UpdatePending("", true) of the error handler
ForceClose(c) == UpdatePending(c, EmptyStr, TRUE)

RecvErrMsg ==
    /\ inbox # <<>> /\ Head(inbox).type = "errMsg"
    /\ err' = Surfaced(Head(inbox).err, CurrConv(M), err)
    /\ answering' = FALSE
    /\ SetManager(WithCurr(M, ForceClose(CurrConv(M))))
    /\ lastMsg' = "errMsg"
    /\ inbox' = Tail(inbox)
    /\ UNCHANGED <<conf, storeVars, apiVars, textarea, historyIdx, task, legacyVars>>

\* a mutant of KnownProvider: the lookup in c.llms always finds a client
KnownProviderAny(p) == TRUE

\* c.llms[conf.Provider] is not nil
KnownProvider(p) == p \in Providers

\* the Send command starts: it reads Curr().Config and the context messages, and
\* Send looks the provider up
SendStart ==
    /\ task.pc = "start"
    /\ SetManager(ManagerCurr(M))
    /\ IF KnownProvider(CurrConv(M).Config.Provider)
       THEN /\ task' = [ pc |-> "call", chunks |-> 0, stream |-> CurrConv(M).Config.Stream ]
            /\ inbox' = inbox
       ELSE /\ inbox = <<>>
            /\ inbox' = Append(inbox, errMsg(UnknownProvider))
            /\ task' = NoTask
    /\ UNCHANGED <<conf, storeVars, apiVars, answering, err, textarea, historyIdx, lastMsg, legacyVars>>

\* the streaming function is called with one fragment; Program.Send hands it to
\* the loop
SendChunk ==
    /\ task.pc = "call" /\ task.stream
    /\ task.chunks < MaxChunks
    /\ inbox = <<>>
    /\ \E chunk \in Contents : inbox' = Append(inbox, answerMsg(chunk, FALSE))
    /\ task' = [ task EXCEPT !.chunks = @ + 1 ]
    /\ UNCHANGED <<conf, storeVars, mgrVars, apiVars, answering, err, textarea, historyIdx, lastMsg, legacyVars>>

\* a mutant of FinalChunk: the last callback carries the content in both modes
FinalChunkContent(streaming, content) == content

\* what the done=true callback carries: string(nil) after a stream, the content
\* of the first choice otherwise
FinalChunk(streaming, content) == IF streaming THEN EmptyStr ELSE content

\* GenerateContent returns without error
SendSucceed ==
    /\ task.pc = "call"
    /\ inbox = <<>>
    /\ \E content \in Contents :
           inbox' = Append(inbox, answerMsg(FinalChunk(task.stream, content), TRUE))
    /\ task' = NoTask
    /\ UNCHANGED <<conf, storeVars, mgrVars, apiVars, answering, err, textarea, historyIdx, lastMsg, legacyVars>>

\* a mutant of SendFail: the command goes on after it has returned the error
SendFailGoesOn ==
    /\ task.pc = "call"
    /\ inbox = <<>>
    /\ \E e \in ProviderErrors : inbox' = Append(inbox, errMsg(e))
    /\ task' = task
    /\ UNCHANGED <<conf, storeVars, mgrVars, apiVars, answering, err, textarea, historyIdx, lastMsg, legacyVars>>

\* a mutant of SendFail: the error of the provider is dropped
SendFailSilent ==
    /\ task.pc = "call"
    /\ inbox = <<>>
    /\ inbox' = inbox
    /\ task' = NoTask
    /\ UNCHANGED <<conf, storeVars, mgrVars, apiVars, answering, err, textarea, historyIdx, lastMsg, legacyVars>>

\* GenerateContent returns an error, which the command returns as an errMsg
SendFail ==
    /\ task.pc = "call"
    /\ inbox = <<>>
    /\ \E e \in ProviderErrors : inbox' = Append(inbox, errMsg(e))
    /\ task' = NoTask
    /\ UNCHANGED <<conf, storeVars, mgrVars, apiVars, answering, err, textarea, historyIdx, lastMsg, legacyVars>>

Next ==
    \/ KeyRunes
    \/ KeySubmit
    \/ KeyNewConversation
    \/ KeyForgetContext
    \/ KeyRemoveConversation
    \/ KeyPrevConversation
    \/ KeyNextConversation
    \/ RecvAnswerMsg
    \/ RecvErrMsg
    \/ SendStart
    \/ SendChunk
    \/ SendSucceed
    \/ SendFail

Spec == Init /\ [][Next]_vars


----------------------------------------------------------------------------
(* Claims about the Update loop, checked under Spec *)

\* the conversation Curr() returns after the step
CurrConvAfter == CurrConv(Manager(Conversations', Idx'))

\* the step calls AddQuestion with the trimmed text and starts a Send task
SubmitIsAccepted ==
    /\ SetManager(WithCurr(M, AddQuestion(CurrConv(M), TrimSpace(textarea))))
    /\ task' # task /\ task'.pc = "start"

\* a submit of a text that is not blank, right after the message of kind k,
\* is accepted
SubmitAfter(k) ==
    (KeySubmit /\ lastMsg = k /\ TrimSpace(textarea) # EmptyStr)
        => (SubmitIsAccepted /\ answering')

\* C4: a submit is accepted (AddQuestion is called and a Send task is started)
\* if and only if the loop is not answering and the text is not empty after
\* trimming; a rejected submit changes no conversation, nor the manager's
\* index, nor the answering flag.
C4_SubmitGuard ==
    [][ KeySubmit =>
          /\ SubmitIsAccepted <=> (~answering /\ TrimSpace(textarea) # EmptyStr)
          /\ ~SubmitIsAccepted => UNCHANGED <<Conversations, Idx, answering>>
      ]_vars

\* a submit of a text that is not blank was rejected while an answer was
\* arriving, after an earlier one was accepted
C4_Witness ==
    /\ lastMsg = "Submit"
    /\ answering
    /\ PendingAnswer(CurrConv(M)) # EmptyStr
    /\ TrimSpace(textarea) # EmptyStr

ConversationKey ==
    \/ KeyNewConversation
    \/ KeyForgetContext
    \/ KeyRemoveConversation
    \/ KeyPrevConversation
    \/ KeyNextConversation

ConversationKeys ==
    { "NewConversation", "ForgetContext", "RemoveConversation",
      "PrevConversation", "NextConversation" }

\* C5: while answering, each of the new-conversation, remove-conversation,
\* forget-context, previous-conversation and next-conversation keys is a no-op:
\* the conversation list, the current index, every conversation's forgotten,
\* context and pending, and the answering flag are unchanged.
C5_KeysRejected ==
    [][ (answering /\ ConversationKey) => UNCHANGED <<Conversations, Idx, answering>> ]_vars

\* a conversation key was processed while the answer of a conversation with a
\* non-empty context was arriving
C5_Witness ==
    /\ lastMsg \in ConversationKeys
    /\ answering
    /\ CurrConv(M).Pending # <<>>
    /\ CurrConv(M).Context # <<>>

\* the pair that pending holds once the fragment is appended to its answer
Closing(c, fragment) == QnA(c.Pending[1].Question, c.Pending[1].Answer \o fragment)

DoneAnswerStep ==
    RecvAnswerMsg /\ answering /\ Head(inbox).done

ErrStep ==
    RecvErrMsg /\ answering

C8_EndOfStream ==
    [][ ErrStep =>
          LET e == Head(inbox).err
              c == CurrConv(M)
          IN  /\ (e = "EOF" /\ PendingAnswer(c) = EmptyStr) => err' = UnexpectedEOF
              /\ (e = "EOF" /\ PendingAnswer(c) # EmptyStr) =>
                     /\ err' = "nil"
                     /\ CurrConvAfter.Pending = <<>>
                     /\ Last(Recall(CurrConvAfter)) = c.Pending[1]
              /\ e # "EOF" => err' = e
      ]_vars

\* the stream ended after a fragment: no error is shown and the partial answer is
\* the last answer of the conversation
C8_Witness ==
    /\ lastMsg = "errMsg"
    /\ err = "nil"
    /\ ~answering
    /\ CurrConv(M).Pending = <<>>
    /\ LastAnswer(CurrConv(M)) = <<"a">>


\* the step hands the loop exactly one callback, of a content the provider may
\* give, with the given done flag
OneCallback(isDone) ==
    \E content \in Contents : inbox' = << answerMsg(content, isDone) >>

\* C11: with stream=true a successful Send calls onChunk(fragment, false) once
\* per received fragment, in order, then onChunk(nil, true) once as its last
\* callback; with stream=false it calls onChunk once, with the full content and
\* done=true; a Send whose provider call fails returns the error and makes no
\* done=true callback.  No step outside a running Send makes a callback.
C11_SendCallbacks ==
    [][ /\ SendChunk =>
              /\ task.stream
              /\ OneCallback(FALSE)
              /\ task'.pc = "call"
        /\ SendSucceed =>
              /\ task'.pc = "none"
              /\ task.stream => inbox' = << answerMsg(EmptyStr, TRUE) >>
              /\ ~task.stream => (task.chunks = 0 /\ OneCallback(TRUE))
        /\ SendFail =>
              /\ task'.pc = "none"
              /\ \E e \in ProviderErrors : inbox' = << errMsg(e) >>
        /\ (Len(inbox') > Len(inbox) /\ Last(inbox').type = "answerMsg") =>
              (task.pc = "call" /\ (SendChunk \/ SendSucceed))
      ]_vars

\* a streaming Send has handed over the fragment "a", which the loop appended to
\* the pending answer, and then its last callback, (nil, true)
C11_Witness ==
    /\ task.pc = "none"
    /\ inbox = << answerMsg(EmptyStr, TRUE) >>
    /\ CurrConv(M).Config.Stream
    /\ PendingAnswer(CurrConv(M)) = <<"a">>


UnknownProviderConv == CurrConv(M).Config.Provider \notin Providers

\* C20: when the current conversation's provider is not configured, Send returns
\* the unknown-provider error without calling any provider; the loop handles it as
\* any other error (pending force-closed, answering cleared, the error shown) and
\* keeps running: the next submit of a non-blank text is accepted
C20_UnknownProvider ==
    /\ [](UnknownProviderConv => task.pc # "call")
    /\ [][ /\ (SendStart /\ UnknownProviderConv) =>
                /\ inbox' = << errMsg(UnknownProvider) >>
                /\ task'.pc = "none"
                /\ sent' = sent
           /\ (ErrStep /\ Head(inbox).err = UnknownProvider) =>
                /\ UnknownProviderConv
                /\ CurrConvAfter.Pending = <<>>
                /\ Recall(CurrConvAfter) =
                       Append(Recall(CurrConv(M)), Closing(CurrConv(M), EmptyStr))
                /\ ~answering'
                /\ err' = UnknownProvider
           /\ err = UnknownProvider => SubmitAfter("errMsg")
         ]_vars

\* after the unknown-provider error closed a question without an answer, a
\* second question was accepted in the same conversation
C20_Witness ==
    /\ UnknownProviderConv
    /\ lastMsg = "Submit"
    /\ answering
    /\ task.pc = "start"
    /\ Len(Recall(CurrConv(M))) = 1
    /\ Recall(CurrConv(M))[1].Answer = EmptyStr
    /\ CurrConv(M).Pending # <<>>


\* a message that ends a Send: the done=true answer or the error
Terminal(msg) == msg.type = "errMsg" \/ (msg.type = "answerMsg" /\ msg.done)

\* a Send has been started and the loop has not yet processed the message that
\* ends it: the command is still running, or that message is waiting
LiveSend ==
    \/ task.pc # "none"
    \/ \E k \in 1..Len(inbox) : Terminal(inbox[k])

\* the step starts a Send command
StartsSend == task' # task /\ task'.pc = "start"

\* C26: at most one Send awaits its terminal event: while one does the loop is
\* answering, and no Send is started before the loop has processed the terminal
\* event of the one before
C26_OneSend ==
    /\ [](LiveSend => answering)
    /\ [][ StartsSend => (~LiveSend /\ inbox = <<>>) ]_vars

\* a second Send was started after the first had delivered a fragment and its
\* done event, both processed by the loop
C26_Witness ==
    /\ lastMsg = "Submit"
    /\ task.pc = "start"
    /\ answering
    /\ inbox = <<>>
    /\ Len(Recall(CurrConv(M))) = 1
    /\ Recall(CurrConv(M))[1].Answer = <<"a">>
    /\ CurrConv(M).Pending # <<>>


\* C28: in the step that accepts a submit the current conversation's pending
\* becomes {trimmed text, ""}, answering becomes true, exactly one Send command
\* is started, the input box is cleared and historyIdx becomes Curr().Len(),
\* the number of entries of the conversation with the pending one
C28_AcceptedSubmit ==
    [][ (KeySubmit /\ ~answering /\ TrimSpace(textarea) # EmptyStr) =>
          /\ CurrConvAfter.Pending = << QnA(TrimSpace(textarea), EmptyStr) >>
          /\ CurrConvAfter.Forgotten = CurrConv(M).Forgotten
          /\ CurrConvAfter.Context = CurrConv(M).Context
          /\ answering'
          /\ task.pc = "none" /\ task'.pc = "start"
          /\ textarea' = EmptyStr
          /\ historyIdx' = Len(CurrConvAfter.Forgotten) + Len(CurrConvAfter.Context) + 1
      ]_vars

\* a second question was accepted: the input box is empty and historyIdx is 2
C28_Witness ==
    /\ lastMsg = "Submit"
    /\ answering
    /\ task.pc = "start"
    /\ textarea = EmptyStr
    /\ CurrConv(M).Pending = << QnA(<<"x">>, EmptyStr) >>
    /\ Len(Recall(CurrConv(M))) = 1
    /\ historyIdx = 2


\* the step hands a message to the loop
Delivers == Len(inbox') = Len(inbox) + 1

\* the terminal events waiting in a queue of messages
Terminals(q) == { k \in 1..Len(q) : Terminal(q[k]) }

\* C33: a started Send gives the loop exactly one terminal event, the done=true
\* answer or the error: the command ends in the step that delivers it and in no
\* other, so there is never none and never a second one, and no message of the
\* Send is delivered once it is out
C33_OneTerminal ==
    /\ [](Cardinality(Terminals(inbox)) <= 1)
    /\ [](Terminals(inbox) # {} => task.pc = "none")
    /\ [][ Delivers => (task.pc # "none" /\ Terminals(inbox) = {}) ]_vars
    /\ [][ (Delivers /\ Terminal(inbox'[Len(inbox')])) => task' = NoTask ]_vars
    /\ [][ (task.pc # "none" /\ task'.pc = "none")
               => (Delivers /\ Terminal(inbox'[Len(inbox')])) ]_vars

\* the done=true answer of a stream is waiting after a fragment of the same
\* Send was applied, and the command has ended
C33_Witness ==
    /\ inbox = << answerMsg(EmptyStr, TRUE) >>
    /\ task = NoTask
    /\ answering
    /\ PendingAnswer(CurrConv(M)) = <<"a">>


\* the scheduling of the loop and of the command: the loop takes every message
\* that waits for it, a command that was queued is run, and a call of the
\* provider returns, with an answer or with an error, once the fragments it
\* handed over have been taken
LoopFairness ==
    /\ WF_vars(RecvAnswerMsg)
    /\ WF_vars(RecvErrMsg)
    /\ WF_vars(SendStart)
    /\ WF_vars(SendSucceed \/ SendFail)

\* the keys and messages of one conversation: a question is typed and
\* submitted, and its answer arrives
NextLive ==
    \/ KeyRunes
    \/ KeySubmit
    \/ RecvAnswerMsg
    \/ RecvErrMsg
    \/ SendStart
    \/ SendChunk
    \/ SendSucceed
    \/ SendFail

\* the Update loop under that scheduling
SpecLive == Init /\ [][NextLive]_vars /\ LoopFairness

\* C34: answering never stays true for ever: every state in which the loop is
\* answering is followed by one in which it is not, with and without streaming
C34_AnsweringEnds == answering ~> ~answering

\* without streaming, the loop is answering and the answer has not arrived
C34_Witness ==
    /\ answering
    /\ ~CurrConv(M).Config.Stream
    /\ task.pc = "call"
    /\ inbox = <<>>
    /\ lastMsg = "Submit"


\* the conversations other than the current one are the same after the step
OthersUnchanged ==
    \A i \in 1..Len(Conversations) : i # Idx + 1 => Conversations'[i] = Conversations[i]

\* C35: from an accepted submit to the processing of its terminal event the
\* loop is answering, and while it is the list of conversations keeps its
\* length and Idx its value, every answer and error message is handled in that
\* span, and it changes the current conversation only, whose pending question
\* stays the submitted one: no fragment is written into another conversation
C35_SameConversation ==
    /\ [][ answering => /\ Idx' = Idx
                        /\ Len(Conversations') = Len(Conversations)
                        /\ OthersUnchanged ]_vars
    /\ [][ (RecvAnswerMsg \/ RecvErrMsg) => (answering /\ CurrConv(M).Pending # <<>>) ]_vars
    /\ [][ (answering /\ answering')
               => /\ Conversations'[Idx + 1].Pending # <<>>
                  /\ Conversations'[Idx + 1].Pending[1].Question
                         = CurrConv(M).Pending[1].Question ]_vars

\* a fragment was applied to the first of two conversations, the one the
\* question was added to, and the second has no pending pair
C35_Witness ==
    /\ Len(Conversations) = 2
    /\ Idx = 0
    /\ answering
    /\ lastMsg = "answerMsg"
    /\ Conversations[1].Pending = << QnA(<<"x">>, <<"a">>) >>
    /\ Conversations[2].Pending = <<>>


\* C37: in a run that starts without a pending pair in any conversation, the
\* loop is answering exactly when the current conversation has a pending pair,
\* and no other conversation has one
C37_AnsweringIffPending ==
    /\ answering <=> CurrConv(M).Pending # <<>>
    /\ \A i \in 1..Len(Conversations) : i # Idx + 1 => Conversations[i].Pending = <<>>

\* the second of two conversations awaits its answer; the first holds an
\* answered question and no pending pair
C37_Witness ==
    /\ Len(Conversations) = 2
    /\ Idx = 1
    /\ answering
    /\ Conversations[2].Pending # <<>>
    /\ Conversations[1].Pending = <<>>
    /\ ConvLen(Conversations[1]) = 1

----------------------------------------------------------------------------
(* SpecLegacy: the send life cycle of the earlier loop, in which ChatGPT     *)
(* holds the stream handle: send() wraps the first network interaction in    *)
(* retry.Do, recv() reads one more fragment, done() closes the handle.       *)

\* retry.Attempts(3)
Attempts == 3

\* a mutant of RetryExhausted: one attempt more is allowed
RetryExhaustedLate(n) == n > Attempts

\* retry.Do gives up after the n-th failed attempt
RetryExhausted(n) == n >= Attempts

deltaAnswerMsg(content) == [ type |-> "deltaAnswerMsg", content |-> content ]

\* Conversation.Len() of the earlier loop: pending is not counted
LegacyLen(c) == Len(c.Forgotten) + Len(c.Context)

\* the earlier loop has one client and no providers
LegacyConfigs == { c \in Configs : c.Provider = "openai" /\ c.ContextLength = 1 }

\* initialModel, on a manager without a history file
InitLegacy ==
    /\ conf \in [ DefaultConversation : LegacyConfigs, Prompts : { DefaultPrompts } ]
    /\ Conversations = ManagerCurr(EmptyManager).Conversations
    /\ Idx = ManagerCurr(EmptyManager).Idx
    /\ sent = <<>>
    /\ lastCall = NoCall
    /\ answering = FALSE
    /\ err = "nil"
    /\ textarea = EmptyStr
    /\ historyIdx = LegacyLen(CurrConv(EmptyManager))
    /\ task = NoTask
    /\ inbox = <<>>
    /\ lastMsg = "none"
    /\ LegacyIdle
    /\ StoreIdle

\* the submit handler; send() sets ChatGPT.answering before its command runs
LegacySubmit ==
    /\ SubmitAccepts(textarea) => Pairs(M) < MaxPairs
    /\ IF SubmitAccepts(textarea)
       THEN LET m1 == WithCurr(M, AddQuestion(CurrConv(M), TrimSpace(textarea)))
            IN  /\ SetManager(m1)
                /\ answering' = TRUE
                /\ task' = [ pc |-> "send", chunks |-> 0 ]
                /\ attempts' = <<>>
                /\ textarea' = EmptyStr
                /\ historyIdx' = LegacyLen(CurrConv(m1)) + 1
       ELSE UNCHANGED <<mgrVars, answering, task, attempts, textarea, historyIdx>>
    /\ lastMsg' = "Submit"
    /\ UNCHANGED <<conf, storeVars, apiVars, err, inbox, stream, handles>>

\* one attempt of the function given to retry.Do fails with e.  When streaming,
\* either CreateChatCompletionStream fails and c.stream is set to the nil stream
\* it returns, or the stream is opened, stored in c.stream, and its first Recv
\* fails.  After the last attempt the command returns errMsg(e).
sendFails ==
    /\ task.pc = "send"
    /\ \E e \in ProviderErrors, opened \in BOOLEAN :
        /\ opened => CurrConv(M).Config.Stream
        /\ IF CurrConv(M).Config.Stream
           THEN IF opened
                THEN /\ handles' = Append(handles, 0)
                     /\ stream' = Len(handles) + 1
                ELSE /\ handles' = handles
                     /\ stream' = 0
           ELSE UNCHANGED <<stream, handles>>
        /\ attempts' = Append(attempts, e)
        /\ IF RetryExhausted(Len(attempts) + 1)
           THEN /\ inbox' = Append(inbox, errMsg(e))
                /\ task' = [ task EXCEPT !.pc = "none" ]
           ELSE UNCHANGED <<inbox, task>>
    /\ UNCHANGED <<conf, storeVars, mgrVars, apiVars, answering, err, textarea, historyIdx, lastMsg>>

\* one attempt succeeds: the stream is opened, stored in c.stream, and its first
\* fragment received; or the whole answer is received
sendSucceeds ==
    /\ task.pc = "send"
    /\ attempts' = Append(attempts, "ok")
    /\ IF CurrConv(M).Config.Stream
       THEN /\ handles' = Append(handles, 0)
            /\ stream' = Len(handles) + 1
            /\ \E content \in Contents : inbox' = Append(inbox, deltaAnswerMsg(content))
            /\ task' = [ pc |-> "none", chunks |-> 0 ]
       ELSE /\ UNCHANGED <<stream, handles>>
            /\ \E content \in Contents : inbox' = Append(inbox, answerMsg(content, TRUE))
            /\ task' = NoTask
    /\ UNCHANGED <<conf, storeVars, mgrVars, apiVars, answering, err, textarea, historyIdx, lastMsg>>

\* recv(): c.stream.Recv() returns one more fragment
recvDelta ==
    /\ task.pc = "recv"
    /\ task.chunks < MaxChunks
    /\ \E content \in Contents : inbox' = Append(inbox, deltaAnswerMsg(content))
    /\ task' = [ pc |-> "none", chunks |-> task.chunks + 1 ]
    /\ UNCHANGED <<conf, storeVars, mgrVars, apiVars, answering, err, textarea, historyIdx, lastMsg, legacyVars>>

\* recv(): c.stream.Recv() returns an error, io.EOF at the end of the stream
recvFails ==
    /\ task.pc = "recv"
    /\ \E e \in ProviderErrors : inbox' = Append(inbox, errMsg(e))
    /\ task' = [ task EXCEPT !.pc = "none" ]
    /\ UNCHANGED <<conf, storeVars, mgrVars, apiVars, answering, err, textarea, historyIdx, lastMsg, legacyVars>>

\* done(): the handle held is closed and dropped
Done ==
    /\ handles' = IF stream # 0 THEN [ handles EXCEPT ![stream] = @ + 1 ] ELSE handles
    /\ stream' = 0
    /\ answering' = FALSE

LegacyRecvDeltaAnswerMsg ==
    /\ inbox # <<>> /\ Head(inbox).type = "deltaAnswerMsg"
    /\ SetManager(WithCurr(M, UpdatePending(CurrConv(M), Head(inbox).content, FALSE)))
    /\ task' = [ task EXCEPT !.pc = "recv" ]
    /\ err' = "nil"
    /\ lastMsg' = "deltaAnswerMsg"
    /\ inbox' = Tail(inbox)
    /\ UNCHANGED <<conf, storeVars, apiVars, answering, textarea, historyIdx, legacyVars>>

LegacyRecvAnswerMsg ==
    /\ inbox # <<>> /\ Head(inbox).type = "answerMsg"
    /\ SetManager(WithCurr(M, UpdatePending(CurrConv(M), Head(inbox).content, TRUE)))
    /\ Done
    /\ lastMsg' = "answerMsg done"
    /\ inbox' = Tail(inbox)
    /\ UNCHANGED <<conf, storeVars, apiVars, err, textarea, historyIdx, task, attempts>>

LegacyRecvErrMsg ==
    /\ inbox # <<>> /\ Head(inbox).type = "errMsg"
    /\ err' = Surfaced(Head(inbox).err, CurrConv(M), err)
    /\ SetManager(WithCurr(M, ForceClose(CurrConv(M))))
    /\ Done
    /\ lastMsg' = "errMsg"
    /\ inbox' = Tail(inbox)
    /\ UNCHANGED <<conf, storeVars, apiVars, textarea, historyIdx, task, attempts>>

NextLegacy ==
    \/ KeyRunes
    \/ LegacySubmit
    \/ sendFails
    \/ sendSucceeds
    \/ recvDelta
    \/ recvFails
    \/ LegacyRecvDeltaAnswerMsg
    \/ LegacyRecvAnswerMsg
    \/ LegacyRecvErrMsg

SpecLegacy == InitLegacy /\ [][NextLegacy]_vars

----------------------------------------------------------------------------
(* Claims about the send life cycle, checked under SpecLegacy *)

SendAttempt == sendFails \/ sendSucceeds

LoopIdle == ~answering /\ task.pc = "none" /\ inbox = <<>>

\* C10: each stream handle opened for a send, those of retried attempts
\* included, has been closed exactly once when the loop is idle again: none is
\* closed twice and none is left open.
C10_ClosedOnce ==
    /\ \A h \in 1..Len(handles) : handles[h] <= 1
    /\ LoopIdle => \A h \in 1..Len(handles) : handles[h] = 1


----------------------------------------------------------------------------
(* SpecFn: the methods of one conversation applied to any conversation a     *)
(* history file may hold                                                     *)

MaxHist == 3

\* the sequences over S of length at most n
SeqsUpTo(S, n) == UNION { [ 1..k -> S ] : k \in 0..n }

FnQnAs == { QnA(<<"x">>, <<"a">>), QnA(<<"y">>, EmptyStr) }

\* a key of the prompt table, and a prompt given in full; the context length of
\* the default configuration, and one the file was edited to
FnConfigs ==
    { [ DefaultConfig.DefaultConversation EXCEPT !.Prompt = p, !.ContextLength = n ] :
        p \in { "default", "Be brief" }, n \in { 1, DefaultConfig.DefaultConversation.ContextLength } }

\* the prompt table of the default configuration, and one that gives the key
\* "default" no text
FnPromptTables == { DefaultPrompts, [ key \in { "default" } |-> "" ] }

FnConversations ==
    [ Config : FnConfigs,
      Forgotten : SeqsUpTo(FnQnAs, MaxHist),
      Context : SeqsUpTo(FnQnAs, MaxHist),
      Pending : { <<>>, << QnA(<<"x">>, EmptyStr) >>, << QnA(<<"y">>, <<"a">>) >> },
      contextTokens : { 0 }, manager : { "m" } ]

InitFn ==
    /\ conf \in [ DefaultConversation : { DefaultConfig.DefaultConversation },
                  Prompts : FnPromptTables ]
    /\ Conversations \in { << c >> : c \in FnConversations }
    /\ Idx = 0
    /\ sent = <<>>
    /\ lastCall = NoCall
    /\ UiIdle
    /\ LegacyIdle
    /\ StoreIdle

\* what a call leaves in lastCall: the conversation it was made on, and the
\* value it returned
FnCall(op, c, ret) == [ op |-> op, before |-> c, ret |-> ret ]

FnGetContextMessages ==
    /\ lastCall' = FnCall("GetContextMessages", Conversations[1],
                          GetContextMessages(Conversations[1]))
    /\ UNCHANGED <<conf, storeVars, mgrVars, sent, uiVars, legacyVars>>

FnForgetContext ==
    /\ Conversations' = << ForgetContext(Conversations[1]) >>
    /\ lastCall' = FnCall("ForgetContext", Conversations[1], "none")
    /\ UNCHANGED <<conf, storeVars, Idx, sent, uiVars, legacyVars>>

FnUpdatePending ==
    /\ \E done \in BOOLEAN, ans \in { EmptyStr, <<"a">> } :
        /\ done \/ Len(PendingAnswer(Conversations[1])) < MaxChunks
        /\ Conversations' = << UpdatePending(Conversations[1], ans, done) >>
        /\ lastCall' = [ op |-> "UpdatePending", before |-> Conversations[1],
                         ret |-> "none", ans |-> ans, done |-> done ]
    /\ UNCHANGED <<conf, storeVars, Idx, sent, uiVars, legacyVars>>

NextFn ==
    \/ FnGetContextMessages
    \/ FnForgetContext
    \/ FnUpdatePending

SpecFn == InitFn /\ [][NextFn]_vars

----------------------------------------------------------------------------
(* Claims about the methods of a conversation, checked under SpecFn *)

\* the prompt of c as the prompt table of the configuration resolves it
ResolvedPrompt(c) ==
    IF \E key \in DOMAIN conf.Prompts : key = c.Config.Prompt /\ conf.Prompts[key] # ""
    THEN conf.Prompts[c.Config.Prompt]
    ELSE c.Config.Prompt

\* C12: GetContextMessages() returns one system message carrying the resolved
\* prompt, then for each context entry in order its question as a human message
\* and its answer as an AI message, then the pending question as a human message
\* when pending is present.  The system message occurs once and first, no
\* forgotten entry and no pending answer is included, and the length is
\* 1 + 2*len(context) + (1 if pending is present, else 0).
C12_ContextMessages ==
    lastCall.op = "GetContextMessages" =>
        LET c == lastCall.before
            r == lastCall.ret
            n == Len(c.Context)
        IN  /\ Conversations[1] = c
            /\ Len(r) = 1 + 2 * n + (IF c.Pending # <<>> THEN 1 ELSE 0)
            /\ r[1] = [ Role |-> "system", Parts |-> << ResolvedPrompt(c) >> ]
            /\ \A i \in 2..Len(r) : r[i].Role # "system"
            /\ \A k \in 1..n :
                   /\ r[2 * k] = [ Role |-> "human", Parts |-> << c.Context[k].Question >> ]
                   /\ r[2 * k + 1] = [ Role |-> "ai", Parts |-> << c.Context[k].Answer >> ]
            /\ c.Pending # <<>> =>
                   r[2 * n + 2] = [ Role |-> "human", Parts |-> << c.Pending[1].Question >> ]

\* the messages of a conversation with 2 forgotten entries, 3 context entries
\* and a pending pair that has an answer already: 8 messages, none of them the
\* pending answer
C12_Witness ==
    /\ lastCall.op = "GetContextMessages"
    /\ Len(lastCall.before.Forgotten) = 2
    /\ Len(lastCall.before.Context) = 3
    /\ lastCall.before.Pending = << QnA(<<"y">>, <<"a">>) >>
    /\ lastCall.before.Context[3].Answer = EmptyStr
    /\ Len(lastCall.ret) = 8


\* C17: ForgetContext() on a conversation with forgotten F, context C and
\* pending P yields forgotten = F ++ C in order, an empty context and pending P
\* unchanged; 2 forgotten and 3 context entries yield 5 forgotten entries.
C17_ForgetContext ==
    lastCall.op = "ForgetContext" =>
        LET b == lastCall.before
            c == Conversations[1]
        IN  /\ c.Forgotten = b.Forgotten \o b.Context
            /\ Len(c.Forgotten) = Len(b.Forgotten) + Len(b.Context)
            /\ \A k \in 1..Len(b.Context) : c.Forgotten[Len(b.Forgotten) + k] = b.Context[k]
            /\ c.Context = <<>>
            /\ c.Pending = b.Pending
            /\ c.Config = b.Config

\* a conversation with 2 forgotten entries, 3 context entries that differ from
\* one another, and a pending pair, after ForgetContext(): 5 forgotten entries
C17_Witness ==
    /\ lastCall.op = "ForgetContext"
    /\ Len(lastCall.before.Forgotten) = 2
    /\ Len(lastCall.before.Context) = 3
    /\ lastCall.before.Context[1] # lastCall.before.Context[3]
    /\ lastCall.before.Forgotten[1] # lastCall.before.Context[1]
    /\ lastCall.before.Pending # <<>>
    /\ Len(Conversations[1].Forgotten) = 5
    /\ Conversations[1].Pending = lastCall.before.Pending




\* C23: for a conversation in any state, one read from a file whose context is
\* longer than its context_length included, after UpdatePending(_, done=true)
\* has returned, on a conversation that had a pending pair, the context has at
\* most context_length entries
C23_BoundAfterDone ==
    (lastCall.op = "UpdatePending" /\ lastCall.done /\ lastCall.before.Pending # <<>>) =>
        Len(Conversations[1].Context) <= Conversations[1].Config.ContextLength


\* C32: UpdatePending on a conversation without a pending pair, whatever the
\* fragment and done are, returns and leaves the conversation as it was
C32_NoPendingNoOp ==
    (lastCall.op = "UpdatePending" /\ lastCall.before.Pending = <<>>)
        => /\ Conversations[1].Forgotten = lastCall.before.Forgotten
           /\ Conversations[1].Context = lastCall.before.Context
           /\ Conversations[1].Pending = <<>>
           /\ Conversations[1] = lastCall.before

\* a fragment that ends an answer came for a conversation over its bound
\* that had no pending pair, and nothing was moved
C32_Witness ==
    /\ lastCall.op = "UpdatePending"
    /\ lastCall.done
    /\ lastCall.ans = <<"a">>
    /\ lastCall.before.Pending = <<>>
    /\ Len(lastCall.before.Context) > lastCall.before.Config.ContextLength
    /\ Conversations[1].Context = lastCall.before.Context

----------------------------------------------------------------------------
(* SpecFind: FindByPrompt on managers drawn from a bounded set, under the   *)
(* prompt tables of SpecFn                                                  *)

\* prompts as a configuration may give them: keys of the table, a text of the
\* table written out, and a text the table does not have
FindPrompts == { "default", "translator", "You are ChatGPT", "Be brief" }

FindConversations ==
    { NewConversation([ DefaultConfig.DefaultConversation EXCEPT !.Prompt = p ]) :
        p \in FindPrompts }

InitFind ==
    /\ conf \in [ DefaultConversation : { DefaultConfig.DefaultConversation },
                  Prompts : FnPromptTables ]
    /\ Conversations \in SeqsUpTo(FindConversations, MaxConvs)
    /\ Idx \in { i \in -1..(MaxConvs - 1) :
                   IF Conversations = <<>> THEN i = -1
                   ELSE i >= 0 /\ i < Len(Conversations) }
    /\ sent = <<>>
    /\ lastCall = NoCall
    /\ UiIdle
    /\ LegacyIdle
    /\ StoreIdle

FnFindByPrompt ==
    /\ \E key \in FindPrompts :
        lastCall' = [ op |-> "FindByPrompt", arg |-> key,
                      ret |-> FindByPrompt(conf, Conversations, key) ]
    /\ UNCHANGED <<conf, storeVars, mgrVars, sent, uiVars, legacyVars>>

NextFind == FnFindByPrompt

SpecFind == InitFind /\ [][NextFind]_vars

\* the text a prompt stands for: the table's text for it, and the prompt itself
\* when it is no key of the table or the table gives it the empty string
Resolved(p) ==
    IF p \in DOMAIN conf.Prompts
    THEN (IF conf.Prompts[p] = "" THEN p ELSE conf.Prompts[p])
    ELSE p

\* the positions of the conversations whose resolved prompt is that of key
Matching(key) ==
    { i \in 1..Len(Conversations) :
        Resolved(Conversations[i].Config.Prompt) = Resolved(key) }

\* C22: FindByPrompt(key) returns the first conversation in list order whose
\* resolved prompt equals the resolved text of key, none when there is no such
\* conversation, and changes neither the list nor Idx
C22_FindByPrompt ==
    [][ lastCall'.op = "FindByPrompt" =>
        LET key == lastCall'.arg
            ret == lastCall'.ret
        IN  /\ ret.found <=> Matching(key) # {}
            /\ ret.found =>
                /\ ret.pos + 1 \in Matching(key)
                /\ \A i \in Matching(key) : ret.pos + 1 <= i
            /\ Conversations' = Conversations
            /\ Idx' = Idx ]_vars

\* the key "default" found the second conversation, whose prompt is the text the
\* table gives for that key, behind one that does not match
C22_Witness ==
    /\ lastCall.op = "FindByPrompt"
    /\ lastCall.arg = "default"
    /\ lastCall.ret.found
    /\ lastCall.ret.pos = 1
    /\ Conversations[2].Config.Prompt = "You are ChatGPT"
    /\ Conversations[1].Config.Prompt = "translator"

----------------------------------------------------------------------------
(* SpecMgr: the methods of the manager, and those of its current             *)
(* conversation, called in any order on a manager that starts empty          *)

MgrConfigs == { c \in Configs : c.Provider = "openai" /\ c.Stream /\ c.ContextLength <= 1 }

InitMgr ==
    /\ conf \in [ DefaultConversation : { c \in MgrConfigs : c.ContextLength = 1 },
                  Prompts : { DefaultPrompts } ]
    /\ Conversations = EmptyManager.Conversations
    /\ Idx = EmptyManager.Idx
    /\ sent = <<>>
    /\ lastCall = NoCall
    /\ UiIdle
    /\ LegacyIdle
    /\ StoreIdle

\* what a call leaves in lastCall: the manager it was made on, its argument and
\* the value it returned
MgrCall(op, arg, ret) == [ op |-> op, before |-> M, arg |-> arg, ret |-> ret ]

MgrNew ==
    /\ Len(Conversations) < MaxConvs
    /\ \E cfg \in MgrConfigs :
        /\ SetManager(ManagerNew(M, cfg))
        /\ lastCall' = MgrCall("New", cfg, ElementAt(ManagerNew(M, cfg)))
    /\ UNCHANGED <<conf, storeVars, sent, uiVars, legacyVars>>

MgrRemoveCurr ==
    /\ SetManager(ManagerRemoveCurr(M))
    /\ lastCall' = MgrCall("RemoveCurr", "none", "none")
    /\ UNCHANGED <<conf, storeVars, sent, uiVars, legacyVars>>

MgrSetCurr ==
    /\ \E ptr \in -1..(Len(Conversations) - 1) :
        /\ SetManager(ManagerSetCurr(M, ptr))
        /\ lastCall' = MgrCall("SetCurr", ptr, "none")
    /\ UNCHANGED <<conf, storeVars, sent, uiVars, legacyVars>>

MgrCurr ==
    /\ SetManager(ManagerCurr(M))
    /\ lastCall' = MgrCall("Curr", "none", CurrReturns(M))
    /\ UNCHANGED <<conf, storeVars, sent, uiVars, legacyVars>>

\* Prev() and Next() return nil on an empty manager
MgrPrev ==
    /\ SetManager(ManagerPrev(M))
    /\ lastCall' = MgrCall("Prev", "none",
                           IF Len(Conversations) = 0 THEN "nil" ELSE ElementAt(ManagerPrev(M)))
    /\ UNCHANGED <<conf, storeVars, sent, uiVars, legacyVars>>

MgrNext ==
    /\ SetManager(ManagerNext(M))
    /\ lastCall' = MgrCall("Next", "none",
                           IF Len(Conversations) = 0 THEN "nil" ELSE ElementAt(ManagerNext(M)))
    /\ UNCHANGED <<conf, storeVars, sent, uiVars, legacyVars>>

\* the methods of the conversation Curr() returns
MgrAddQuestion ==
    /\ Pairs(M) < MaxPairs
    /\ \E q \in { <<"x">> } :
        /\ SetManager(WithCurr(M, AddQuestion(CurrConv(M), q)))
        /\ lastCall' = MgrCall("AddQuestion", q, "none")
    /\ UNCHANGED <<conf, storeVars, sent, uiVars, legacyVars>>

MgrUpdatePending ==
    /\ \E done \in BOOLEAN :
        /\ done \/ Len(PendingAnswer(CurrConv(M))) < MaxChunks
        /\ SetManager(WithCurr(M, UpdatePending(CurrConv(M), <<"a">>, done)))
        /\ lastCall' = MgrCall("UpdatePending", done, "none")
    /\ UNCHANGED <<conf, storeVars, sent, uiVars, legacyVars>>

NextMgr ==
    \/ MgrNew
    \/ MgrRemoveCurr
    \/ MgrSetCurr
    \/ MgrCurr
    \/ MgrPrev
    \/ MgrNext
    \/ MgrAddQuestion
    \/ MgrUpdatePending

SpecMgr == InitMgr /\ [][NextMgr]_vars



\* C13: on a manager that started empty, after any sequence of New, RemoveCurr,
\* Prev, Next, SetCurr and Curr calls, a non-empty list has 0 <= Idx < len, and
\* what a Curr() call returned is an element of the list
C13_IdxInRange ==
    /\ Len(Conversations) > 0 => Idx >= 0 /\ Idx < Len(Conversations)
    /\ lastCall.op = "Curr" =>
        /\ ~lastCall.ret.panic
        /\ \E i \in 1..Len(Conversations) : Conversations[i] = lastCall.ret.value

\* Curr() has returned the second of two conversations
C13_Witness ==
    /\ lastCall.op = "Curr"
    /\ Len(Conversations) = 2
    /\ Idx = 1
    /\ ~lastCall.ret.panic
    /\ lastCall.ret.value = Conversations[2]

\* the step of a call of the method op
MgrStep(op) == lastCall'.op = op

ValidIdx == Idx >= 0 /\ Idx < Len(Conversations)

\* C14: from a valid index Prev() moves Idx down by one and Next() up by one,
\* except that Prev() at 0 stays at 0 and Next() at len-1 stays at len-1, so
\* the index is never negative, never above len-1, and never wraps around
C14_NavigationClamp ==
    [][ /\ (MgrStep("Prev") /\ ValidIdx) =>
            /\ Idx' = (IF Idx = 0 THEN 0 ELSE Idx - 1)
            /\ Idx' >= 0
            /\ Conversations' = Conversations
        /\ (MgrStep("Next") /\ ValidIdx) =>
            /\ Idx' = (IF Idx = Len(Conversations) - 1 THEN Idx ELSE Idx + 1)
            /\ Idx' <= Len(Conversations) - 1
            /\ Conversations' = Conversations ]_vars

\* Prev() was called at index 0 of two conversations
C14_Witness ==
    /\ lastCall.op = "Prev"
    /\ Len(lastCall.before.Conversations) = 2
    /\ lastCall.before.Idx = 0
    /\ Idx = 0

\* C15: Curr() on an empty manager appends exactly one conversation with the
\* manager's default configuration, makes it current and returns it; on a
\* non-empty manager it returns Conversations[Idx] and changes neither the list
\* nor Idx
C15_Curr ==
    [][ MgrStep("Curr") =>
        IF Len(Conversations) = 0
        THEN /\ Len(Conversations') = 1
             /\ Conversations'[1].Config = conf.DefaultConversation
             /\ Conversations'[1].Forgotten = <<>>
             /\ Conversations'[1].Context = <<>>
             /\ Conversations'[1].Pending = <<>>
             /\ Idx' = 0
             /\ ~lastCall'.ret.panic
             /\ lastCall'.ret.value = Conversations'[1]
        ELSE /\ Conversations' = Conversations
             /\ Idx' = Idx
             /\ ~lastCall'.ret.panic
             /\ lastCall'.ret.value = Conversations[Idx + 1] ]_vars

\* Curr() was called on an empty manager
C15_Witness ==
    /\ lastCall.op = "Curr"
    /\ lastCall.before.Conversations = <<>>
    /\ Len(Conversations) = 1
    /\ Idx = 0

\* C16: RemoveCurr on a non-empty manager removes the conversation at Idx and
\* keeps the others in order; Idx is unchanged unless the last element was
\* removed, and then it is the new last index, negative only when the list has
\* become empty; on an empty manager nothing changes
C16_RemoveCurr ==
    [][ MgrStep("RemoveCurr") =>
        IF Len(Conversations) = 0
        THEN Conversations' = Conversations /\ Idx' = Idx
        ELSE /\ Len(Conversations') = Len(Conversations) - 1
             /\ \A i \in 1..Len(Conversations') :
                    Conversations'[i] = (IF i <= Idx THEN Conversations[i]
                                                    ELSE Conversations[i + 1])
             /\ Idx' = (IF Idx = Len(Conversations) - 1
                        THEN Len(Conversations') - 1 ELSE Idx)
             /\ Idx' < 0 <=> Len(Conversations') = 0 ]_vars

\* the last of two conversations was removed
C16_Witness ==
    /\ lastCall.op = "RemoveCurr"
    /\ Len(lastCall.before.Conversations) = 2
    /\ lastCall.before.Idx = 1
    /\ Len(Conversations) = 1
    /\ Idx = 0


\* C21: New(config) appends exactly one conversation, with the given
\* configuration, no forgotten, no context and no pending, sets Idx to the new
\* length minus one, and leaves every earlier conversation in its place
C21_New ==
    [][ MgrStep("New") =>
        LET n == Len(Conversations')
        IN  /\ n = Len(Conversations) + 1
            /\ Conversations'[n].Config = lastCall'.arg
            /\ Conversations'[n].Forgotten = <<>>
            /\ Conversations'[n].Context = <<>>
            /\ Conversations'[n].Pending = <<>>
            /\ Idx' = n - 1
            /\ \A i \in 1..Len(Conversations) : Conversations'[i] = Conversations[i]
            /\ ~lastCall'.ret.panic
            /\ lastCall'.ret.value = Conversations'[n] ]_vars

\* New was called with a configuration other than the default one on a manager
\* that held a conversation with a question
C21_Witness ==
    /\ lastCall.op = "New"
    /\ lastCall.arg # conf.DefaultConversation
    /\ Len(lastCall.before.Conversations) = 1
    /\ ConvLen(lastCall.before.Conversations[1]) > 0
    /\ Len(Conversations) = 2
    /\ Conversations[1] = lastCall.before.Conversations[1]
    /\ Idx = 1

----------------------------------------------------------------------------
(* SpecDump: one session of the manager's methods on a manager whose        *)
(* history file does not exist yet, Dump() writing the file at its end, and *)
(* a manager constructed anew loading it                                    *)

\* a question with characters the encoder escapes
DumpQuestions == { << "\"", "\\" >> }

InitDump == InitMgr

InSession == file = NoFile

DumpNew == InSession /\ MgrNew

DumpRemoveCurr == InSession /\ MgrRemoveCurr

DumpPrev == InSession /\ MgrPrev

DumpAddQuestion ==
    /\ InSession
    /\ Pairs(M) < MaxPairs
    /\ \E q \in DumpQuestions :
        /\ SetManager(WithCurr(M, AddQuestion(CurrConv(M), q)))
        /\ lastCall' = MgrCall("AddQuestion", q, "none")
    /\ UNCHANGED <<conf, storeVars, sent, uiVars, legacyVars>>

DumpUpdatePending == InSession /\ MgrUpdatePending

DumpForgetContext ==
    /\ InSession
    /\ SetManager(WithCurr(M, ForgetContext(CurrConv(M))))
    /\ lastCall' = MgrCall("ForgetContext", "none", "none")
    /\ UNCHANGED <<conf, storeVars, sent, uiVars, legacyVars>>

MgrDump ==
    /\ file' = Dump(M)
    /\ lastCall' = MgrCall("Dump", "none", "nil")
    /\ UNCHANGED <<conf, quit, DetachMode, ticks, mgrVars, sent, uiVars, legacyVars>>

MgrLoad ==
    /\ SetManager(Load(file))
    /\ lastCall' = MgrCall("Load", "none", "nil")
    /\ UNCHANGED <<conf, storeVars, sent, uiVars, legacyVars>>

NextDump ==
    \/ DumpNew
    \/ DumpRemoveCurr
    \/ DumpPrev
    \/ DumpAddQuestion
    \/ DumpUpdatePending
    \/ DumpForgetContext
    \/ MgrDump
    \/ MgrLoad

SpecDump == InitDump /\ [][NextDump]_vars


\* C18: Dump() followed by Load() into a manager constructed anew on the same
\* file gives the same conversations in the same order, each with the same
\* config, forgotten, context and pending, the same Idx, and every
\* conversation's back-reference attached to the manager
C18_RoundTrip ==
    [][ (lastCall.op = "Dump" /\ MgrStep("Load")) =>
        /\ Len(Conversations') = Len(Conversations)
        /\ \A i \in 1..Len(Conversations) :
            /\ Conversations'[i].Config = Conversations[i].Config
            /\ Conversations'[i].Forgotten = Conversations[i].Forgotten
            /\ Conversations'[i].Context = Conversations[i].Context
            /\ Conversations'[i].Pending = Conversations[i].Pending
            /\ Conversations'[i].manager = "m"
        /\ Idx' = Idx ]_vars

\* a file was loaded that holds a conversation with a forgotten pair and a
\* pending one, and a conversation with none
C18_Witness ==
    /\ lastCall.op = "Load"
    /\ file # NoFile
    /\ Len(Conversations) = 2
    /\ \E i \in 1..2 :
        /\ Conversations[i].Forgotten # <<>>
        /\ Conversations[i].Context = <<>>
        /\ Conversations[i].Pending # <<>>
        /\ Conversations[3 - i].Forgotten = <<>>
        /\ Conversations[3 - i].Context = <<>>
        /\ Conversations[3 - i].Pending = <<>>


----------------------------------------------------------------------------
(* SpecQuit: the loop of ui/ui.go with the quit key, in detach mode and out *)
(* of it.  The loop ends with tea.Quit: no message is handled after it.     *)
(* The save timer is left to SpecSave.                                      *)

InitQuit ==
    /\ conf \in [ DefaultConversation : { c \in UiConfigs : c.Provider \in Providers /\ c.Stream /\ c.ContextLength = 1 },
                  Prompts : { DefaultPrompts } ]
    /\ Conversations = ManagerCurr(EmptyManager).Conversations
    /\ Idx = ManagerCurr(EmptyManager).Idx
    /\ sent = <<>>
    /\ lastCall = NoCall
    /\ answering = FALSE
    /\ err = "nil"
    /\ textarea = EmptyStr
    /\ historyIdx = ConvLen(CurrConv(EmptyManager))
    /\ task = NoTask
    /\ inbox = <<>>
    /\ lastMsg = "none"
    /\ LegacyIdle
    /\ file = NoFile
    /\ quit = FALSE
    /\ DetachMode \in BOOLEAN
    /\ ticks = 0

RunningKeyRunes == ~quit /\ KeyRunes

RunningKeySubmit == ~quit /\ KeySubmit

RunningKeyNewConversation == ~quit /\ KeyNewConversation

RunningKeyForgetContext == ~quit /\ KeyForgetContext

RunningKeyRemoveConversation == ~quit /\ KeyRemoveConversation

RunningKeyPrevConversation == ~quit /\ KeyPrevConversation

RunningKeyNextConversation == ~quit /\ KeyNextConversation

RunningRecvAnswerMsg == ~quit /\ RecvAnswerMsg

RunningRecvErrMsg == ~quit /\ RecvErrMsg

RunningSendStart == ~quit /\ SendStart

RunningSendChunk == ~quit /\ SendChunk

RunningSendSucceed == ~quit /\ SendSucceed

RunningSendFail == ~quit /\ SendFail

\* a mutant of SavesOnQuit: the history is written in detach mode too
SavesOnQuitAlways == TRUE

SavesOnQuit == ~DetachMode

\* the quit key; lastCall records how many times the handler called Dump()
KeyQuit ==
    /\ ~quit
    /\ IF SavesOnQuit
       THEN /\ file' = Dump(M)
            /\ lastCall' = [ op |-> "Quit", dumps |-> 1 ]
       ELSE /\ file' = file
            /\ lastCall' = [ op |-> "Quit", dumps |-> 0 ]
    /\ quit' = TRUE
    /\ lastMsg' = "Quit"
    /\ UNCHANGED <<conf, DetachMode, ticks, mgrVars, sent, answering, err, textarea, historyIdx, task, inbox, legacyVars>>

NextQuit ==
    \/ RunningKeyRunes
    \/ RunningKeySubmit
    \/ RunningKeyNewConversation
    \/ RunningKeyForgetContext
    \/ RunningKeyRemoveConversation
    \/ RunningKeyPrevConversation
    \/ RunningKeyNextConversation
    \/ RunningRecvAnswerMsg
    \/ RunningRecvErrMsg
    \/ RunningSendStart
    \/ RunningSendChunk
    \/ RunningSendSucceed
    \/ RunningSendFail
    \/ KeyQuit

SpecQuit == InitQuit /\ [][NextQuit]_vars

\* C19: the quit key is handled while idle and while answering; its handler
\* writes the history exactly once, before the loop ends, when detach mode is
\* off, and does not write it when detach mode is on
C19_QuitSaves ==
    /\ [](~quit => ENABLED KeyQuit)
    /\ [][ quit' # quit =>
            /\ quit'
            /\ lastCall'.op = "Quit"
            /\ IF DetachMode
               THEN lastCall'.dumps = 0 /\ file' = file
               ELSE lastCall'.dumps = 1 /\ file' = << Encode(M) >> ]_vars
    /\ [][ quit => UNCHANGED vars ]_vars

\* the loop has quit while answering, and the history was written
C19_Witness ==
    /\ quit
    /\ answering
    /\ ~DetachMode
    /\ lastCall.op = "Quit"
    /\ lastCall.dumps = 1
    /\ file = << Encode(M) >>
    /\ Pairs(M) > 0


----------------------------------------------------------------------------
(* SpecSave: the loop of ui/ui.go on one conversation, with the save timer, *)
(* the quit key, and the program started again on the file it has left      *)

\* a mutant of FirstTicks: the first tick is scheduled in detach mode too
FirstTicksAlways == IF DetachMode THEN 1 ELSE 1

\* Model.Init: the first tick is scheduled unless in detach mode
FirstTicks == IF DetachMode THEN 0 ELSE 1

InitSave ==
    /\ conf \in [ DefaultConversation : { c \in UiConfigs : c.Provider \in Providers /\ c.Stream /\ c.ContextLength = 1 },
                  Prompts : { DefaultPrompts } ]
    /\ Conversations = ManagerCurr(EmptyManager).Conversations
    /\ Idx = ManagerCurr(EmptyManager).Idx
    /\ sent = <<>>
    /\ lastCall = NoCall
    /\ answering = FALSE
    /\ err = "nil"
    /\ textarea = EmptyStr
    /\ historyIdx = ConvLen(CurrConv(EmptyManager))
    /\ task = NoTask
    /\ inbox = <<>>
    /\ lastMsg = "none"
    /\ LegacyIdle
    /\ file = NoFile
    /\ quit = FALSE
    /\ DetachMode \in BOOLEAN
    /\ ticks = FirstTicks

\* a mutant of Reschedules: the handler of the tick schedules no next one
ReschedulesNever == FALSE

\* the handler of the tick appends savePeriodically() to its commands
Reschedules == TRUE

\* the save tick: Dump(), and savePeriodically() again
RecvSaveMsg ==
    /\ ~quit
    /\ ticks > 0
    /\ file' = Dump(M)
    /\ ticks' = (IF Reschedules THEN ticks ELSE ticks - 1)
    /\ lastMsg' = "saveMsg"
    /\ lastCall' = [ op |-> "saveMsg", dumps |-> 1 ]
    /\ UNCHANGED <<conf, quit, DetachMode, mgrVars, sent, answering, err, textarea, historyIdx, task, inbox, legacyVars>>

\* the program is started again without -n and -p: main() builds the manager
\* from the history file, and InitialModel the loop's state
Restart ==
    /\ quit
    /\ LET m1 == ManagerCurr(Load(file))
       IN  /\ SetManager(m1)
           /\ historyIdx' = ConvLen(CurrConv(m1))
    /\ answering' = FALSE
    /\ err' = "nil"
    /\ textarea' = EmptyStr
    /\ task' = NoTask
    /\ inbox' = <<>>
    /\ lastMsg' = "none"
    /\ lastCall' = NoCall
    /\ quit' = FALSE
    /\ ticks' = FirstTicks
    /\ UNCHANGED <<conf, file, DetachMode, sent, legacyVars>>

NextSave ==
    \/ RunningKeyRunes
    \/ RunningKeySubmit
    \/ RunningRecvAnswerMsg
    \/ RunningRecvErrMsg
    \/ RunningSendStart
    \/ RunningSendChunk
    \/ RunningSendSucceed
    \/ RunningSendFail
    \/ RecvSaveMsg
    \/ KeyQuit
    \/ Restart

SpecSave == InitSave /\ [][NextSave]_vars

\* C25: every AddQuestion the loop calls finds the current conversation without
\* a pending pair, also in a run that starts from a file Dump wrote while a
\* conversation was being answered
C25_NoPendingOverwritten ==
    [][ (KeySubmit /\ SubmitAccepts(textarea)) => CurrConv(M).Pending = <<>> ]_vars


\* C30: the handler of a save tick calls Dump() and schedules exactly one next
\* tick; it leaves answering, the error shown, the manager's index and every
\* conversation as they are, and it runs while idle and while answering
C30_SaveTick ==
    /\ []((~quit /\ ticks > 0) => ENABLED RecvSaveMsg)
    /\ [][ RecvSaveMsg =>
            /\ file' = << Encode(M) >>
            /\ lastCall'.dumps = 1
            /\ ticks' = ticks
            /\ ticks' = 1
            /\ UNCHANGED <<answering, err, Idx, Conversations>> ]_vars

\* a tick was handled while answering: the file holds the conversation with its
\* pending pair and the fragment received so far, and the next tick is scheduled
C30_Witness ==
    /\ lastMsg = "saveMsg"
    /\ lastCall.op = "saveMsg"
    /\ answering
    /\ ticks = 1
    /\ PendingAnswer(CurrConv(M)) = <<"a">>
    /\ file = << Encode(M) >>



\* C39: in detach mode no step of the loop calls Dump(): no save tick is ever
\* scheduled, so the handler of the tick, which does not look at the mode, is
\* never run, the quit key skips the Dump(), and the history file stays as it
\* was
C39_DetachNeverDumps ==
    /\ [](DetachMode => (ticks = 0 /\ ~ENABLED RecvSaveMsg))
    /\ [][ DetachMode => (file' = file /\ ~RecvSaveMsg) ]_vars
    /\ [][ (DetachMode /\ KeyQuit) => lastCall'.dumps = 0 ]_vars

\* in detach mode the loop has quit after an answer was completed, and there
\* is still no history file
C39_Witness ==
    /\ DetachMode
    /\ quit
    /\ lastMsg = "Quit"
    /\ ticks = 0
    /\ file = NoFile
    /\ ~answering
    /\ Len(CurrConv(M).Context) = 1

----------------------------------------------------------------------------
(* SpecOrder: the loop of ui/ui.go on one conversation with the save timer, *)
(* and a Send that streams fragments which differ from one another.  The    *)
(* history variable sent holds, for the submit accepted last, the question, *)
(* the fragments the Send has delivered so far, concatenated in the order   *)
(* of delivery, and the conversation as it was before the submit.           *)

OrdFragments == { <<"a">>, <<"b">> }

\* the fragment delivered after k others: each differs from the one before it
FragmentAfter(k) == IF k % 2 = 0 THEN <<"a">> ELSE <<"b">>

OrdSent(q, passed, before) == [ q |-> q, passed |-> passed, before |-> before ]

InitOrder ==
    /\ conf \in [ DefaultConversation : { c \in UiConfigs : c.Provider \in Providers /\ c.Stream },
                  Prompts : { DefaultPrompts } ]
    /\ Conversations = ManagerCurr(EmptyManager).Conversations
    /\ Idx = ManagerCurr(EmptyManager).Idx
    /\ sent = OrdSent(EmptyStr, EmptyStr, CurrConv(EmptyManager))
    /\ lastCall = NoCall
    /\ answering = FALSE
    /\ err = "nil"
    /\ textarea = EmptyStr
    /\ historyIdx = ConvLen(CurrConv(EmptyManager))
    /\ task = NoTask
    /\ inbox = <<>>
    /\ lastMsg = "none"
    /\ LegacyIdle
    /\ file = NoFile
    /\ quit = FALSE
    /\ DetachMode = FALSE
    /\ ticks = FirstTicks

\* the submit key, as KeySubmit, with the history started anew on acceptance
OrdKeySubmit ==
    /\ SubmitAccepts(textarea) => Pairs(M) < MaxPairs
    /\ IF SubmitAccepts(textarea)
       THEN LET m1 == WithCurr(M, AddQuestion(CurrConv(M), TrimSpace(textarea)))
            IN  /\ SetManager(m1)
                /\ task' = [ pc |-> "start", chunks |-> 0 ]
                /\ answering' = TRUE
                /\ textarea' = EmptyStr
                /\ historyIdx' = ConvLen(CurrConv(m1))
                /\ sent' = OrdSent(TrimSpace(textarea), EmptyStr, CurrConv(M))
       ELSE UNCHANGED <<mgrVars, task, answering, textarea, historyIdx, sent>>
    /\ lastMsg' = "Submit"
    /\ UNCHANGED <<conf, storeVars, lastCall, err, inbox, legacyVars>>

\* the streaming function is called with one fragment, as SendChunk, for up to
\* MaxChunks + 1 fragments
OrdSendChunk ==
    /\ task.pc = "call" /\ task.stream
    /\ task.chunks <= MaxChunks
    /\ inbox = <<>>
    /\ \E chunk \in { FragmentAfter(task.chunks) } :
        /\ inbox' = Append(inbox, answerMsg(chunk, FALSE))
        /\ sent' = [ sent EXCEPT !.passed = @ \o chunk ]
    /\ task' = [ task EXCEPT !.chunks = @ + 1 ]
    /\ UNCHANGED <<conf, storeVars, mgrVars, lastCall, answering, err, textarea, historyIdx, lastMsg, legacyVars>>

\* GenerateContent returns without error, as SendSucceed
OrdSendSucceed ==
    /\ task.pc = "call"
    /\ inbox = <<>>
    /\ \E content \in OrdFragments :
        /\ inbox' = Append(inbox, answerMsg(FinalChunk(task.stream, content), TRUE))
        /\ sent' = [ sent EXCEPT !.passed = @ \o FinalChunk(task.stream, content) ]
    /\ task' = NoTask
    /\ UNCHANGED <<conf, storeVars, mgrVars, lastCall, answering, err, textarea, historyIdx, lastMsg, legacyVars>>

NextOrder ==
    \/ KeyRunes
    \/ OrdKeySubmit
    \/ KeyForgetContext
    \/ RecvAnswerMsg
    \/ RecvErrMsg
    \/ RecvSaveMsg
    \/ SendStart
    \/ OrdSendChunk
    \/ OrdSendSucceed
    \/ SendFail

SpecOrder == InitOrder /\ [][NextOrder]_vars

\* the fragments delivered and not yet processed by the loop
Waiting ==
    IF inbox # <<>> /\ Head(inbox).type = "answerMsg" THEN Head(inbox).content ELSE EmptyStr

\* while the Send of the accepted submit is live, the pending pair holds its
\* question and the fragments processed so far, in the order of delivery
AppliedInOrder ==
    (answering /\ (task.pc # "none" \/ inbox # <<>>)) =>
        /\ CurrConv(M).Pending # <<>>
        /\ CurrConv(M).Pending[1].Question = sent.q
        /\ CurrConv(M).Pending[1].Answer \o Waiting = sent.passed

\* the loop has returned to idle by processing the done event
BackToIdle == lastMsg = "answerMsg done" /\ ~answering

\* the context bound forced an eviction when the pair was closed
ForcedEviction ==
    Len(sent.before.Context) + 1 > sent.before.Config.ContextLength

-----------------------------------------------------------------------------
(* SpecTok: the cached token count of one conversation, in the version that
   counts the tokens of the context messages *)

\* tokenizer.CountTokens: one token for each unit of the text
CountTokens(text) == Len(text)

RECURSIVE SumTokens(_)
SumTokens(messages) ==
    IF messages = <<>>
    THEN 0
    ELSE 3 + 1 + CountTokens(Head(messages).Parts[1]) + SumTokens(Tail(messages))

\* tokenizer.CountMessagesTokens for a model of the gpt-3.5-turbo and gpt-4
\* families: three tokens for each message, the role (one token), the content,
\* and three tokens that prime the reply
CountMessagesTokens(messages) == SumTokens(messages) + 3

\* GetContextTokens: the count is computed when none is cached
GetContextTokens(c) ==
    IF c.contextTokens = 0
    THEN [ c EXCEPT !.contextTokens = CountMessagesTokens(GetContextMessages(c)) ]
    ELSE c

InitTok ==
    /\ conf \in [ DefaultConversation : { DefaultConfig.DefaultConversation },
                  Prompts : FnPromptTables ]
    /\ Conversations \in { << NewConversation(cfg) >> : cfg \in FnConfigs }
    /\ Idx = 0
    /\ sent = <<>>
    /\ lastCall = NoCall
    /\ UiIdle
    /\ LegacyIdle
    /\ StoreIdle

TokAddQuestion ==
    /\ Pairs(M) < MaxPairs
    /\ \E q \in { <<"x">>, <<"y", "y">> } :
        /\ Conversations' = << AddQuestion(Conversations[1], q) >>
        /\ lastCall' = [ op |-> "AddQuestion", before |-> Conversations[1],
                         ret |-> "none", ans |-> q, done |-> FALSE ]
    /\ UNCHANGED <<conf, storeVars, Idx, sent, uiVars, legacyVars>>

TokGetContextTokens ==
    /\ Conversations' = << GetContextTokens(Conversations[1]) >>
    /\ lastCall' = [ op |-> "GetContextTokens", before |-> Conversations[1],
                     ret |-> GetContextTokens(Conversations[1]).contextTokens,
                     ans |-> EmptyStr, done |-> FALSE ]
    /\ UNCHANGED <<conf, storeVars, Idx, sent, uiVars, legacyVars>>

NextTok ==
    \/ TokAddQuestion
    \/ FnUpdatePending
    \/ FnForgetContext
    \/ TokGetContextTokens

SpecTok == InitTok /\ [][NextTok]_vars

\* the last call was one that changes the context or the pending of the
\* conversation
ChangedByLastCall ==
    \/ lastCall.op = "AddQuestion"
    \/ lastCall.op = "ForgetContext"
    \/ lastCall.op = "UpdatePending" /\ lastCall.before.Pending # <<>>

\* the statement as the specification gives it: every one of these calls,
\* UpdatePending with done = false too, leaves no cached count
C29_AsStated ==
    ChangedByLastCall => Conversations[1].contextTokens = 0

\* C29: the cached token count is cleared by AddQuestion, by UpdatePending with
\* done = true on a pending pair and by ForgetContext; UpdatePending with
\* done = false keeps it, and a cached count is always the count of the
\* messages GetContextMessages gives, which do not hold the pending answer
C29_TokenCache ==
    /\ (ChangedByLastCall /\ (lastCall.op = "UpdatePending" => lastCall.done))
          => Conversations[1].contextTokens = 0
    /\ (lastCall.op = "UpdatePending" /\ ~lastCall.done)
          => Conversations[1].contextTokens = lastCall.before.contextTokens
    /\ Conversations[1].contextTokens # 0
          => Conversations[1].contextTokens
                 = CountMessagesTokens(GetContextMessages(Conversations[1]))

\* a fragment that did not complete the answer was applied to a conversation
\* with a cached count, and the count is still the one of its messages
C29_Witness ==
    /\ lastCall.op = "UpdatePending"
    /\ ~lastCall.done
    /\ lastCall.before.Pending # <<>>
    /\ lastCall.before.contextTokens # 0
    /\ Conversations[1].Pending[1].Answer # lastCall.before.Pending[1].Answer
    /\ Conversations[1].contextTokens
           = CountMessagesTokens(GetContextMessages(Conversations[1]))


-----------------------------------------------------------------------------
(* SpecCrash: Dump() in its two steps, os.Create and Encode, with the process *)
(* killed at any point and started again on the same history file; quit is    *)
(* TRUE while no process runs                                                  *)

\* the history file between os.Create and the end of the write: what it holds
\* ends before the document does
TruncatedFile == << [ eof |-> TRUE ] >>

\* the error Load() returns on a file holding f: a missing file is no error,
\* and a file without a whole document fails to decode
LoadErr(f) ==
    IF f = NoFile THEN "nil"
    ELSE IF "conversations" \in DOMAIN f[1] THEN "nil" ELSE "EOF"

InitCrash == InitMgr

\* no Dump() is under way in a running process
Steady == ~quit /\ lastCall.op # "Create"

\* the calls that change the manager between two saves
CrashCall ==
    /\ Steady
    /\ (MgrNew \/ MgrAddQuestion \/ MgrUpdatePending)

\* Dump(), up to the return of os.Create: the file exists and is empty
DumpCreate ==
    /\ Steady
    /\ file' = TruncatedFile
    /\ lastCall' = MgrCall("Create", "none", "nil")
    /\ UNCHANGED <<conf, quit, DetachMode, ticks, mgrVars, sent, uiVars, legacyVars>>

\* Dump(), from os.Create on: the document is written
DumpEncode ==
    /\ ~quit
    /\ lastCall.op = "Create"
    /\ file' = Dump(M)
    /\ lastCall' = MgrCall("Dump", "none", "nil")
    /\ UNCHANGED <<conf, quit, DetachMode, ticks, mgrVars, sent, uiVars, legacyVars>>

\* the process is killed: the manager it held is gone, the file stays as it is
Kill ==
    /\ ~quit
    /\ quit' = TRUE
    /\ SetManager(EmptyManager)
    /\ lastCall' = [ op |-> "Kill", during |-> lastCall.op ]
    /\ UNCHANGED <<conf, file, DetachMode, ticks, sent, uiVars, legacyVars>>

\* the program is started: NewConversationManager loads the file, and main
\* gives up when that fails
Start ==
    /\ quit
    /\ lastCall.op = "Kill"
    /\ IF LoadErr(file) = "nil"
       THEN SetManager(Load(file)) /\ quit' = FALSE
       ELSE UNCHANGED <<mgrVars, quit>>
    /\ lastCall' = [ op |-> "Start", ret |-> LoadErr(file) ]
    /\ UNCHANGED <<conf, file, DetachMode, ticks, sent, uiVars, legacyVars>>

NextCrash ==
    \/ CrashCall
    \/ DumpCreate
    \/ DumpEncode
    \/ Kill
    \/ Start

SpecCrash == InitCrash /\ [][NextCrash]_vars

\* C31: a Dump() interrupted at any point leaves the file holding a whole
\* document, the one before or the new one, so the next start loads it
C31_InterruptedDump ==
    /\ quit => LoadErr(file) = "nil"
    /\ lastCall.op = "Start" => lastCall.ret = "nil"


-----------------------------------------------------------------------------
(* SpecRead: the Update loop with the Send command reading Curr().Config and *)
(* Curr().GetContextMessages() in two steps of its own, between which the    *)
(* loop may handle any message; sent records what the submit step left and   *)
(* what the command passed to Send                                           *)

\* the arguments of Send as conversation c gives them
SendArgs(c) == [ Config |-> c.Config, messages |-> GetContextMessages(c) ]

InitRead ==
    /\ conf \in [ DefaultConversation : { c \in UiConfigs : c.ContextLength = 1 },
                  Prompts : { DefaultPrompts } ]
    /\ Conversations = ManagerCurr(EmptyManager).Conversations
    /\ Idx = ManagerCurr(EmptyManager).Idx
    /\ sent = [ submitted |-> SendArgs(CurrConv(EmptyManager)), passed |-> <<>> ]
    /\ lastCall = NoCall
    /\ answering = FALSE
    /\ err = "nil"
    /\ textarea = EmptyStr
    /\ historyIdx = ConvLen(CurrConv(EmptyManager))
    /\ task = NoTask
    /\ inbox = <<>>
    /\ lastMsg = "none"
    /\ LegacyIdle
    /\ StoreIdle

\* the submit key, as KeySubmit; the command it queues has read nothing yet
ReadKeySubmit ==
    /\ SubmitAccepts(textarea) => Pairs(M) < MaxPairs
    /\ IF SubmitAccepts(textarea)
       THEN LET m1 == WithCurr(M, AddQuestion(CurrConv(M), TrimSpace(textarea)))
            IN  /\ SetManager(m1)
                /\ task' = [ pc |-> "start", chunks |-> 0 ]
                /\ answering' = TRUE
                /\ textarea' = EmptyStr
                /\ historyIdx' = ConvLen(CurrConv(m1))
                /\ sent' = [ submitted |-> SendArgs(CurrConv(m1)), passed |-> <<>> ]
       ELSE UNCHANGED <<mgrVars, task, answering, textarea, historyIdx, sent>>
    /\ lastMsg' = "Submit"
    /\ UNCHANGED <<conf, storeVars, lastCall, err, inbox, legacyVars>>

\* the command evaluates m.conversations.Curr().Config
TaskReadConfig ==
    /\ task.pc = "start"
    /\ SetManager(ManagerCurr(M))
    /\ task' = [ pc |-> "read", chunks |-> 0, config |-> CurrConv(M).Config ]
    /\ UNCHANGED <<conf, storeVars, apiVars, answering, err, textarea, historyIdx, inbox, lastMsg, legacyVars>>

\* the command evaluates m.conversations.Curr().GetContextMessages() and calls
\* Send, which looks the provider of the configuration up
TaskReadMessages ==
    /\ task.pc = "read"
    /\ SetManager(ManagerCurr(M))
    /\ sent' = [ sent EXCEPT !.passed =
                   << [ Config |-> task.config,
                        messages |-> GetContextMessages(CurrConv(M)) ] >> ]
    /\ IF KnownProvider(task.config.Provider)
       THEN /\ task' = [ pc |-> "call", chunks |-> 0, stream |-> task.config.Stream ]
            /\ inbox' = inbox
       ELSE /\ inbox = <<>>
            /\ inbox' = Append(inbox, errMsg(UnknownProvider))
            /\ task' = NoTask
    /\ UNCHANGED <<conf, storeVars, lastCall, answering, err, textarea, historyIdx, lastMsg, legacyVars>>

NextRead ==
    \/ KeyRunes
    \/ ReadKeySubmit
    \/ KeyNewConversation
    \/ KeyForgetContext
    \/ KeyRemoveConversation
    \/ KeyPrevConversation
    \/ KeyNextConversation
    \/ RecvAnswerMsg
    \/ RecvErrMsg
    \/ TaskReadConfig
    \/ TaskReadMessages
    \/ SendChunk
    \/ SendSucceed
    \/ SendFail

SpecRead == InitRead /\ [][NextRead]_vars

\* C36: what the command passes to Send is the configuration and the context
\* messages of the submitting conversation as the submit step left them,
\* whatever the loop handled in between, and the Curr() calls of the command
\* leave the manager as it is
C36_TaskReads ==
    /\ [](sent.passed # <<>> => sent.passed[1] = sent.submitted)
    /\ [][ (TaskReadConfig \/ TaskReadMessages) => UNCHANGED mgrVars ]_vars

\* the command has passed the second question of a conversation, with the
\* first pair as its context, after the loop handled a key between its two
\* reads
C36_Witness ==
    /\ sent.passed # <<>>
    /\ task.pc = "call"
    /\ Len(sent.passed[1].messages) = 4
    /\ lastMsg = "ForgetContext"
    /\ CurrConv(M).Pending # <<>>


-----------------------------------------------------------------------------
(* SpecHist: the Update loop with the keys that recall earlier questions *)

InitHist ==
    /\ conf \in [ DefaultConversation :
                      { c \in UiConfigs : c.Provider \in Providers /\ c.Stream /\ c.ContextLength = 1 },
                  Prompts : { DefaultPrompts } ]
    /\ Conversations = ManagerCurr(EmptyManager).Conversations
    /\ Idx = ManagerCurr(EmptyManager).Idx
    /\ sent = <<>>
    /\ lastCall = NoCall
    /\ answering = FALSE
    /\ err = "nil"
    /\ textarea = EmptyStr
    /\ historyIdx = ConvLen(CurrConv(EmptyManager))
    /\ task = NoTask
    /\ inbox = <<>>
    /\ lastMsg = "none"
    /\ LegacyIdle
    /\ StoreIdle

\* the key handler took question idx of conversation c into the input box, or
\* GetQuestion panicked and the program is gone
RecallInto(c, idx) ==
    IF GetQuestion(c, idx).panic
    THEN quit' = TRUE /\ UNCHANGED <<textarea, historyIdx>>
    ELSE /\ textarea' = GetQuestion(c, idx).value
         /\ historyIdx' = idx
         /\ quit' = quit

KeyNextHistory ==
    /\ IF answering
       THEN UNCHANGED <<mgrVars, textarea, historyIdx, quit>>
       ELSE LET m1 == ManagerCurr(M)
                idx == historyIdx + 1
            IN  /\ SetManager(m1)
                /\ IF idx >= ConvLen(CurrConv(m1))
                   THEN /\ historyIdx' = ConvLen(CurrConv(m1))
                        /\ textarea' = EmptyStr
                        /\ quit' = quit
                   ELSE RecallInto(CurrConv(m1), idx)
    /\ lastMsg' = "NextHistory"
    /\ UNCHANGED <<conf, file, DetachMode, ticks, apiVars, answering, err, task, inbox, legacyVars>>

\* a mutant of ClampPrev: the index is taken as it is
ClampPrevNot(idx) == idx

\* the lower bound of the PrevHistory handler
ClampPrev(idx) == IF idx < 0 THEN 0 ELSE idx

KeyPrevHistory ==
    /\ IF answering
       THEN UNCHANGED <<mgrVars, textarea, historyIdx, quit>>
       ELSE LET m1 == ManagerCurr(M)
            IN  /\ SetManager(m1)
                /\ RecallInto(CurrConv(m1), ClampPrev(historyIdx - 1))
    /\ lastMsg' = "PrevHistory"
    /\ UNCHANGED <<conf, file, DetachMode, ticks, apiVars, answering, err, task, inbox, legacyVars>>

NextHist ==
    \/ KeyRunes
    \/ KeySubmit
    \/ KeyNewConversation
    \/ KeyForgetContext
    \/ KeyRemoveConversation
    \/ KeyPrevConversation
    \/ KeyNextConversation
    \/ KeyNextHistory
    \/ KeyPrevHistory
    \/ RecvAnswerMsg
    \/ RecvErrMsg
    \/ SendStart
    \/ SendChunk
    \/ SendSucceed
    \/ SendFail

SpecHist == InitHist /\ [][NextHist]_vars

\* C38: after InitialModel and after every step 0 <= historyIdx <= Curr().Len()
\* and no handler has panicked; the previous-question key at cursor 0 leaves
\* the cursor at 0, and the next-question key at or past the last question
\* sets the cursor to Curr().Len() and empties the input box
C38_HistoryCursor ==
    /\ [](0 <= historyIdx /\ historyIdx <= ConvLen(CurrConv(M)))
    /\ [](~quit)
    /\ [][ (KeyPrevHistory /\ ~answering /\ historyIdx = 0) => historyIdx' = 0 ]_vars
    /\ [][ (KeyNextHistory /\ ~answering /\ historyIdx + 1 >= ConvLen(CurrConv(M)))
               => /\ historyIdx' = ConvLen(CurrConv(M))
                  /\ textarea' = EmptyStr ]_vars

\* the previous-question key was pressed at the first of two questions, whose
\* text is in the input box
C38_Witness ==
    /\ lastMsg = "PrevHistory"
    /\ ~answering
    /\ historyIdx = 0
    /\ ConvLen(CurrConv(M)) = 2
    /\ textarea = GetQuestion(CurrConv(M), 0).value
    /\ textarea # EmptyStr

============================================================================
